---- MODULE Spec2Model ----
(***************************************************************************)
(* A model of the microclaw device runtime (apps/microclaw-device,         *)
(* src/runtime.rs): the message-driven state machine RuntimeState with its *)
(* allowlist gate, replay/stale gate, kind dispatch, in-flight command     *)
(* tracking, staleness, safety lockdown and OTA bookkeeping.               *)
(*                                                                         *)
(* The Rust struct RuntimeState is the record rt; every method is an       *)
(* operator from (state, inputs) to [state, ret], and every action of the  *)
(* next-state relation applies one method to rt.  Wall-clock reads         *)
(* (now_ms()) are inputs: clock[i] is the value of the i-th read made by   *)
(* the handler.                                                            *)
(***************************************************************************)
EXTENDS Integers, Sequences, FiniteSets, TLC

VARIABLES
    rt,          \* the RuntimeState
    ret,         \* the last operation and the value it returned
    processed,   \* history: every message_id accepted so far
    outstanding, \* history: the corr_id of every emit_command not yet answered by an accepted
                 \* CommandAck/CommandResult of that corr_id, in the order of the calls
    denials,     \* history: frames denied since the last accepted HelloAck
    bus,         \* the Bus: the rows of bus_events and the cached last_seq
    queue,       \* the ExecutionQueue
    held,        \* the QueuedItems next_ready has returned and the caller still owns
    handouts,    \* history: how often next_ready returned the item of each id since
                 \* its enqueue
    arrival,     \* history: per group, the ids of the items not yet dropped, in the
                 \* order of their enqueue calls
    runspec,     \* the RunSpec being built and run
    executed,    \* history: the argument lists Executor::run was called with
    broker,      \* the SecretBroker
    requested,   \* history: the keys request was called with, in the order of the calls
    pipeline,    \* the TouchPipeline
    pushes,      \* history: the number of samples pushed into the pipeline
    yielded,     \* history: the number (in push order) of the sample of the last frame
                 \* next_frame returned, 0 before the first
    store,       \* the table scheduled_tasks, in rowid order
    sent         \* history: the number of frames the numbering host has sent

vars == <<rt, ret, processed, outstanding, denials, bus, queue, held, handouts, arrival,
          runspec, executed, broker, requested, pipeline, pushes, yielded, store, sent>>
\* the variables of the device runtime and its history
deviceVars == <<rt, processed, outstanding, denials>>
\* the variables of the host-side components
busVars == <<bus>>
queueVars == <<queue, held, handouts, arrival>>
sandboxVars == <<runspec, executed, broker, requested>>
pipelineVars == <<pipeline, pushes, yielded>>
schedulerVars == <<store>>
\* the variables of the touch pipeline and of the scheduler
peerVars == <<sent>>
restVars == <<pipelineVars, schedulerVars, peerVars>>
hostVars == <<busVars, queueVars, sandboxVars, restVars>>

----------------------------------------------------------------------------
(* Bounds of the model *)

\* stand-in for u64::MAX (the width of last_seq and envelope.seq, scaled down)
U64_MAX == 1023
\* stand-in for u32::MAX (the width of safety_fail_count, scaled down)
U32_MAX == 7
\* inbound frames carry a seq in 0..MaxFrameSeq, or U64_MAX
MaxFrameSeq == 2
\* at most MaxDenials frames are denied between two accepted HelloAcks
MaxDenials == 8
\* emit_command is called only while fewer than MaxInFlight commands are outstanding
MaxInFlight == 2
\* the gate specification calls emit_command only while fewer than MaxGateInFlight are outstanding
MaxGateInFlight == 1
\* operations that push a diagnostic run only while the ring holds fewer than MaxDiag
MaxDiag == 1
\* the numbering host sends MaxSent frames, with up to MaxPeerInFlight commands outstanding
MaxSent == 3
MaxPeerInFlight == 1
\* reconnect attempts are numbered 0..MaxBackoffAttempt
MaxBackoffAttempt == 60
\* the flood specification accepts up to MaxFlood frames
MaxFlood == 516
\* the queue specification has an inflight_limit in 0..MaxLimit,
MaxLimit == 2
\* a RetryPolicy with max_attempts in 0..MaxAttempts,
MaxAttempts == 2
\* and calls next_ready and complete with now_ms in 0..MaxQueueTime
MaxQueueTime == 2
\* the runner specification builds a RunSpec with up to MaxMounts mounts,
MaxMounts == 2
\* up to MaxEnv environment pairs
MaxEnv == 1
\* and up to MaxEgress egress hosts, and runs it up to MaxRuns times
MaxEgress == 2
MaxRuns == 2
\* the broker specification makes up to MaxRequests requests
MaxRequests == 3
\* the pipeline specification pushes up to MaxPushes samples, with up to
\* MaxInvalid samples outside the safe circle in the queue at a time
MaxPushes == 34
MaxInvalid == 1
\* and next_frame takes up to MaxTaken samples out
MaxTaken == 3

\* Scheduled tasks in the table, and the latest second of the clock.
MaxTasks == 2

MaxInstant == 2

(* Program constants *)
DEFAULT_SAFETY_RETRIES == 5
SEEN_LIMIT == 512
DIAGNOSTICS_LIMIT == 16
DISPLAY_WIDTH == 360
DISPLAY_HEIGHT == 360
SAFE_RADIUS == 160

----------------------------------------------------------------------------
(* Option<T>, HashMap, saturating arithmetic *)

None == <<>>
Some(x) == <<x>>
is_some(o) == Len(o) = 1
unwrap_or(o, d) == IF is_some(o) THEN o[1] ELSE d

EmptyMap == <<>>

\* the value ()
Unit == << >>
map_insert(m, k, v) == [x \in (DOMAIN m) \cup {k} |-> IF x = k THEN v ELSE m[x]]
map_remove(m, k) == [x \in (DOMAIN m) \ {k} |-> m[x]]
map_len(m) == Cardinality(DOMAIN m)

saturating_add(a, b, max) == IF a + b > max THEN max ELSE a + b
saturating_sub(a, b) == IF a - b < 0 THEN 0 ELSE a - b
Min(a, b) == IF a < b THEN a ELSE b

----------------------------------------------------------------------------
(* RuntimeMode and RuntimeAction *)

Booting == [tag |-> "Booting", reason |-> ""]
Connected == [tag |-> "Connected", reason |-> ""]
Offline == [tag |-> "Offline", reason |-> ""]
Error(reason) == [tag |-> "Error", reason |-> reason]
SafeMode(reason) == [tag |-> "SafeMode", reason |-> reason]

ActionNone == [type |-> "None"]
EmitAck(corr_id, status) == [type |-> "EmitAck", corr_id |-> corr_id, status |-> status]
EmitCommand(action) == [type |-> "EmitCommand", action |-> action]
RaiseUiState(message) == [type |-> "RaiseUiState", message |-> message]

(* identifiers built by format!: "cmd-{seq}" and "corr-{seq}" *)
cmd_id(seq) == <<"cmd", seq>>
corr_id_of(seq) == <<"corr", seq>>

----------------------------------------------------------------------------
(* Display geometry and scene hit testing (display.rs, ui.rs) *)

SAFE_CENTER_X == DISPLAY_WIDTH \div 2
SAFE_CENTER_Y == DISPLAY_HEIGHT \div 2

in_safe_circle(x, y) ==
    LET dx == x - SAFE_CENTER_X
        dy == y - SAFE_CENTER_Y
    IN dx * dx + dy * dy <= SAFE_RADIUS * SAFE_RADIUS

clamp_and_validate_touch(raw_x, raw_y) ==
    LET x == Min(raw_x, saturating_sub(DISPLAY_WIDTH, 1))
        y == Min(raw_y, saturating_sub(DISPLAY_HEIGHT, 1))
    IN IF in_safe_circle(x, y) THEN Some([x |-> x, y |-> y]) ELSE None

HitTarget(x, y, w, h, action) == [x |-> x, y |-> y, w |-> w, h |-> h, action |-> action]

targets_for_scene(scene) ==
    CASE scene = "Boot" -> << HitTarget(126, 292, 108, 46, "Retry") >>
      [] scene = "ConnectSetup" ->
            << HitTarget(40, 280, 56, 56, "WifiReconnect"),
               HitTarget(110, 280, 140, 56, "Reconnect"),
               HitTarget(264, 280, 56, 56, "StatusGet") >>
      [] scene = "Paired" ->
            << HitTarget(60, 130, 240, 100, "OpenConversation"),
               HitTarget(34, 250, 110, 60, "Unpair"),
               HitTarget(216, 250, 110, 60, "SyncNow"),
               HitTarget(122, 320, 116, 28, "WifiReconnect") >>
      [] scene = "Conversation" ->
            << HitTarget(52, 280, 124, 54, "Mute"),
               HitTarget(184, 280, 124, 54, "EndSession"),
               HitTarget(108, 320, 144, 30, "OpenConversation") >>
      [] scene \in {"AgentThinking", "AgentStreaming", "AgentTaskProgress"} -> << >>
      [] scene = "Settings" -> << HitTarget(150, 320, 60, 30, "StatusGet") >>
      [] scene = "NotificationList" -> << >>
      [] scene \in {"Error", "Offline"} ->
            << HitTarget(86, 250, 188, 64, "Restart"),
               HitTarget(80, 320, 200, 40, "Reconnect") >>

\* u16 width of the rectangle's far edge
U16_MAX == 65535

hit(t, p) ==
    /\ p.x >= t.x
    /\ p.x <= saturating_add(t.x, t.w, U16_MAX)
    /\ p.y >= t.y
    /\ p.y <= saturating_add(t.y, t.h, U16_MAX)

\* a faulty variant: of several targets containing the point the last one wins
action_for_touch_last(scene, point) ==
    LET ts == targets_for_scene(scene)
        hits == {i \in DOMAIN ts : hit(ts[i], point)}
    IN IF hits = {} THEN None
       ELSE Some(ts[CHOOSE i \in hits : \A j \in hits : i >= j].action)

action_for_touch(scene, point) ==
    LET ts == targets_for_scene(scene)
        hits == {i \in DOMAIN ts : hit(ts[i], point)}
    IN IF hits = {} THEN None
       ELSE Some(ts[CHOOSE i \in hits : \A j \in hits : i <= j].action)

----------------------------------------------------------------------------
(* Payload parsing (microclaw-protocol).  A payload is modelled by what the *)
(* two parsers make of it.                                                  *)

DeviceStatus(wifi_ok, mode, ota_state) ==
    [wifi_ok |-> wifi_ok, mode |-> mode, ota_state |-> ota_state]
DeviceStatusDefault == DeviceStatus(FALSE, None, None)

as_status_snapshot(msg) == msg.payload.status
as_device_command(msg) == msg.payload.command

JsonStr(v) == [t |-> "string", v |-> v]
JsonNum(v) == [t |-> "number", v |-> v]
json_get(args, key) == IF key \in DOMAIN args THEN Some(args[key]) ELSE None
json_as_str(value) == IF value.t = "string" THEN Some(value.v) ELSE None

----------------------------------------------------------------------------
(* RuntimeState *)

new ==
    [ mode |-> Booting,
      last_seq |-> 0,
      seen_message_ids |-> EmptyMap,
      in_flight |-> EmptyMap,
      diagnostics |-> << >>,
      last_status |-> DeviceStatusDefault,
      offline_since_ms |-> None,
      last_heartbeat_ms |-> None,
      host_allowlist |-> << >>,
      safety_fail_count |-> 0,
      safety_fail_limit |-> DEFAULT_SAFETY_RETRIES,
      ota_in_progress |-> FALSE,
      ota_target_version |-> None,
      ota_error_reason |-> None,
      scene_cache |-> "Boot" ]

with_host_allowlist(hosts) == [new EXCEPT !.host_allowlist = hosts]

in_flight_count(s) == map_len(s.in_flight)

scene_of(mode) ==
    CASE mode.tag = "Booting" -> "Boot"
      [] mode.tag = "Connected" -> "Paired"
      [] mode.tag = "Offline" -> "Offline"
      [] mode.tag = "Error" -> "Error"
      [] mode.tag = "SafeMode" -> "Settings"

\* scene(): computes the scene and stores it in the scene_cache cell
scene(s) == [state |-> [s EXCEPT !.scene_cache = scene_of(s.mode)], ret |-> scene_of(s.mode)]


\* a faulty variant: the "*" entry is not honoured
is_host_allowed_no_wildcard(s, source) ==
    IF Len(s.host_allowlist) = 0 THEN TRUE
    ELSE \E i \in DOMAIN s.host_allowlist : s.host_allowlist[i] = source

is_host_allowed(s, source) ==
    IF Len(s.host_allowlist) = 0 THEN TRUE
    ELSE \E i \in DOMAIN s.host_allowlist :
            s.host_allowlist[i] = source \/ s.host_allowlist[i] = "*"

process_touch(s, point) ==
    LET sc == scene(s)
        action == action_for_touch(sc.ret, point)
    IN [state |-> sc.state,
        ret |-> IF is_some(action) THEN EmitCommand(action[1]) ELSE ActionNone]

\* a faulty variant: only Up ends a touch, a Cancel is taken for a tap
apply_touch_event_cancel_taps(s, event) ==
    IF event.phase = "Up" THEN [state |-> s, ret |-> ActionNone]
    ELSE LET point == clamp_and_validate_touch(event.x, event.y)
         IN IF is_some(point) THEN process_touch(s, point[1])
            ELSE [state |-> s, ret |-> ActionNone]

apply_touch_event(s, event) ==
    IF event.phase \in {"Up", "Cancel"} THEN [state |-> s, ret |-> ActionNone]
    ELSE LET point == clamp_and_validate_touch(event.x, event.y)
         IN IF is_some(point) THEN process_touch(s, point[1])
            ELSE [state |-> s, ret |-> ActionNone]

trim_diagnostics(s) ==
    IF Len(s.diagnostics) > DIAGNOSTICS_LIMIT
    THEN [s EXCEPT !.diagnostics =
             SubSeq(@, Len(@) - DIAGNOSTICS_LIMIT + 1, Len(@))]
    ELSE s

push_diagnostic(s, entry) ==
    trim_diagnostics([s EXCEPT !.diagnostics = Append(@, entry)])

mark_offline_with_reason(s, reason, now_ms) ==
    IF s.mode.tag # "Offline"
    THEN push_diagnostic([s EXCEPT !.mode = Offline,
                                   !.offline_since_ms = Some(now_ms)], reason)
    ELSE s

apply_status_snapshot(s, status, now) ==
    LET s1 == [s EXCEPT !.last_status = status]
    IN IF ~status.wifi_ok THEN mark_offline_with_reason(s1, "status_wifi_not_ok", now)
       ELSE IF is_some(status.mode)
            THEN LET mode == status.mode[1]
                 IN CASE mode = "boot" -> [s1 EXCEPT !.mode = Booting]
                      [] mode \in {"connected", "paired", "ready"} ->
                            [s1 EXCEPT !.mode = Connected]
                      [] mode = "offline" -> [s1 EXCEPT !.mode = Offline]
                      [] mode = "safe_mode" ->
                            [s1 EXCEPT !.mode = SafeMode("host_reported_safe_mode")]
                      [] mode = "error" ->
                            [s1 EXCEPT !.mode = Error("host_reported_error")]
                      [] OTHER -> s1
            ELSE s1

note_heartbeat(s, issued_at, now) ==
    [s EXCEPT !.last_heartbeat_ms = Some(unwrap_or(issued_at, now))]


\* a faulty variant: a frame repeating last_seq is not stale
is_duplicate_or_stale_strict(s, seq, message_id) ==
    IF seq < s.last_seq THEN TRUE
    ELSE message_id \in DOMAIN s.seen_message_ids

\* a faulty variant: only the message id is checked
is_duplicate_or_stale_ids_only(s, seq, message_id) ==
    message_id \in DOMAIN s.seen_message_ids

is_duplicate_or_stale(s, seq, message_id) ==
    IF seq <= s.last_seq THEN TRUE
    ELSE message_id \in DOMAIN s.seen_message_ids


\* a faulty variant: the cache is emptied one id early
track_message_id_early(s, seq, message_id) ==
    LET s1 == IF map_len(s.seen_message_ids) >= SEEN_LIMIT
              THEN [s EXCEPT !.seen_message_ids = EmptyMap]
              ELSE s
    IN [s1 EXCEPT !.seen_message_ids = map_insert(@, message_id, seq)]

track_message_id(s, seq, message_id) ==
    LET s1 == IF map_len(s.seen_message_ids) > SEEN_LIMIT
              THEN [s EXCEPT !.seen_message_ids = EmptyMap]
              ELSE s
    IN [s1 EXCEPT !.seen_message_ids = map_insert(@, message_id, seq)]

(* the arms of the match on msg.kind, run on an accepted frame *)


\* a faulty variant: HelloAck leaves the failure count alone
on_hello_ack_keep_count(s) ==
    [state |-> [s EXCEPT !.mode = Connected, !.offline_since_ms = None],
     ret |-> RaiseUiState("connected")]

on_hello_ack(s) ==
    [state |-> [s EXCEPT !.mode = Connected,
                         !.offline_since_ms = None,
                         !.safety_fail_count = 0],
     ret |-> RaiseUiState("connected")]

on_status(s, msg, now) ==
    LET status == as_status_snapshot(msg)
        s1 == IF is_some(status) THEN apply_status_snapshot(s, status[1], now) ELSE s
    IN [state |-> [s1 EXCEPT !.offline_since_ms = None],
        ret |-> RaiseUiState("status_updated")]

\* a faulty variant: OtaStart also restarts the runtime
on_command_ota_reboots(s, msg) ==
    LET command == as_device_command(msg)
    IN IF is_some(command)
       THEN LET action == command[1].action
                args == command[1].args
            IN CASE action = "Reconnect" ->
                      [state |-> [s EXCEPT !.mode = Offline],
                       ret |-> RaiseUiState("command_reconnect")]
                 [] action = "Retry" ->
                      [state |-> [s EXCEPT !.mode = Booting],
                       ret |-> RaiseUiState("command_retry")]
                 [] action = "Restart" ->
                      [state |-> [s EXCEPT !.mode = Booting],
                       ret |-> RaiseUiState("command_restart")]
                 [] action = "OtaStart" ->
                      LET version == json_get(args, "version")
                      IN [state |->
                            [s EXCEPT !.ota_target_version =
                                         IF is_some(version)
                                         THEN json_as_str(version[1])
                                         ELSE None,
                                      !.ota_error_reason = None,
                                      !.ota_in_progress = TRUE,
                                      !.mode = Booting],
                          ret |-> RaiseUiState("command_ota_start")]
                 [] action = "DiagnosticsSnapshot" ->
                      [state |-> s, ret |-> RaiseUiState("command_diagnostics")]
                 [] OTHER ->
                      [state |-> s, ret |-> RaiseUiState("command_received")]
       ELSE [state |-> s, ret |-> RaiseUiState("command_parse_error")]

on_command(s, msg) ==
    LET command == as_device_command(msg)
    IN IF is_some(command)
       THEN LET action == command[1].action
                args == command[1].args
            IN CASE action = "Reconnect" ->
                      [state |-> [s EXCEPT !.mode = Offline],
                       ret |-> RaiseUiState("command_reconnect")]
                 [] action = "Retry" ->
                      [state |-> [s EXCEPT !.mode = Booting],
                       ret |-> RaiseUiState("command_retry")]
                 [] action = "Restart" ->
                      [state |-> [s EXCEPT !.mode = Booting],
                       ret |-> RaiseUiState("command_restart")]
                 [] action = "OtaStart" ->
                      LET version == json_get(args, "version")
                      IN [state |->
                            [s EXCEPT !.ota_target_version =
                                         IF is_some(version)
                                         THEN json_as_str(version[1])
                                         ELSE None,
                                      !.ota_error_reason = None,
                                      !.ota_in_progress = TRUE],
                          ret |-> RaiseUiState("command_ota_start")]
                 [] action = "DiagnosticsSnapshot" ->
                      [state |-> s, ret |-> RaiseUiState("command_diagnostics")]
                 [] OTHER ->
                      [state |-> s, ret |-> RaiseUiState("command_received")]
       ELSE [state |-> s, ret |-> RaiseUiState("command_parse_error")]

on_command_ack(s, msg) ==
    IF is_some(msg.corr_id)
    THEN [state |-> [s EXCEPT !.in_flight = map_remove(@, msg.corr_id[1])],
          ret |-> EmitAck(msg.corr_id[1], "command_ack")]
    ELSE [state |-> s, ret |-> ActionNone]

on_command_result(s, msg) ==
    [state |-> IF is_some(msg.corr_id)
               THEN [s EXCEPT !.in_flight = map_remove(@, msg.corr_id[1])]
               ELSE s,
     ret |-> RaiseUiState("command_result")]


\* a faulty variant: Heartbeat resets the failure count as HelloAck does
on_heartbeat_reset_count(s) ==
    [state |-> [s EXCEPT !.mode = Connected, !.safety_fail_count = 0],
     ret |-> ActionNone]

on_heartbeat(s) ==
    [state |-> [s EXCEPT !.mode = Connected], ret |-> ActionNone]

dispatch_kind(s, msg, now) ==
    CASE msg.kind = "HelloAck" -> on_hello_ack(s)
      [] msg.kind \in {"StatusDelta", "StatusSnapshot"} -> on_status(s, msg, now)
      [] msg.kind \in {"Command", "HostCommand"} -> on_command(s, msg)
      [] msg.kind = "CommandAck" -> on_command_ack(s, msg)
      [] msg.kind = "CommandResult" -> on_command_result(s, msg)
      [] msg.kind = "Error" -> [state |-> s, ret |-> RaiseUiState("host_error")]
      [] msg.kind = "Heartbeat" -> on_heartbeat(s)
      [] OTHER -> [state |-> s, ret |-> ActionNone]

\* a faulty variant: the heartbeat is noted before the replay gate is consulted
apply_transport_message_heartbeat_first(s, msg, clock) ==
    IF ~is_host_allowed(s, msg.envelope.source)
    THEN [state |-> [s EXCEPT !.safety_fail_count = saturating_add(@, 1, U32_MAX)],
          ret |-> RaiseUiState("command_denied_unauthorized_source")]
    ELSE IF is_duplicate_or_stale(s, msg.envelope.seq, msg.envelope.message_id)
    THEN [state |-> note_heartbeat(s, msg.issued_at, clock[1]),
          ret |-> RaiseUiState("replay_or_duplicate_rejected")]
    ELSE LET s1 == [s EXCEPT !.last_seq = msg.envelope.seq]
             s2 == track_message_id(s1, msg.envelope.seq, msg.envelope.message_id)
             s3 == note_heartbeat(s2, msg.issued_at, clock[1])
         IN dispatch_kind(s3, msg, clock[2])

\* clock[1]: now_ms() read by note_heartbeat; clock[2]: now_ms() read by apply_status_snapshot
apply_transport_message(s, msg, clock) ==
    IF ~is_host_allowed(s, msg.envelope.source)
    THEN [state |-> [s EXCEPT !.safety_fail_count = saturating_add(@, 1, U32_MAX)],
          ret |-> RaiseUiState("command_denied_unauthorized_source")]
    ELSE IF is_duplicate_or_stale(s, msg.envelope.seq, msg.envelope.message_id)
    THEN [state |-> s, ret |-> RaiseUiState("replay_or_duplicate_rejected")]
    ELSE LET s1 == [s EXCEPT !.last_seq = msg.envelope.seq]
             s2 == track_message_id(s1, msg.envelope.seq, msg.envelope.message_id)
             s3 == note_heartbeat(s2, msg.issued_at, clock[1])
         IN dispatch_kind(s3, msg, clock[2])

\* clock[1]: now_ms() for enqueued_at_ms; clock[2]: now_ms() for issued_at
emit_command(s, action, clock) ==
    LET seq == saturating_add(s.last_seq, 1, U64_MAX)
        message_id == cmd_id(seq)
        corr_id == corr_id_of(seq)
        envelope == [seq |-> seq, source |-> "device", message_id |-> message_id]
    IN [state |-> [s EXCEPT !.last_seq = seq,
                            !.in_flight = map_insert(@, corr_id,
                                [corr_id |-> corr_id, action |-> action,
                                 enqueued_at_ms |-> clock[1]])],
        ret |-> [envelope |-> envelope,
                 kind |-> "Command",
                 corr_id |-> Some(corr_id),
                 issued_at |-> Some(clock[2]),
                 payload |-> [action |-> action]]]

\* a faulty variant: a heartbeat exactly as old as the timeout is already stale
mark_offline_if_stale_at_timeout(s, now_ms, heartbeat_timeout_ms) ==
    IF s.mode.tag = "Offline" THEN [state |-> s, ret |-> FALSE]
    ELSE LET last_seen == unwrap_or(s.last_heartbeat_ms, now_ms)
         IN IF saturating_sub(now_ms, last_seen) >= heartbeat_timeout_ms
            THEN [state |-> mark_offline_with_reason(s, "heartbeat_stale", now_ms),
                  ret |-> TRUE]
            ELSE [state |-> s, ret |-> FALSE]

mark_offline_if_stale(s, now_ms, heartbeat_timeout_ms) ==
    IF s.mode.tag = "Offline" THEN [state |-> s, ret |-> FALSE]
    ELSE LET last_seen == unwrap_or(s.last_heartbeat_ms, now_ms)
         IN IF saturating_sub(now_ms, last_seen) > heartbeat_timeout_ms
            THEN [state |-> mark_offline_with_reason(s, "heartbeat_stale", now_ms),
                  ret |-> TRUE]
            ELSE [state |-> s, ret |-> FALSE]


\* a faulty variant: the limit itself does not lock down
safety_lockdown_check_above(s) ==
    IF s.mode.tag = "SafeMode" THEN [state |-> s, ret |-> FALSE]
    ELSE IF s.safety_fail_count > s.safety_fail_limit
    THEN [state |-> [s EXCEPT !.mode =
                        SafeMode("safety_retries_exhausted_entering_safe_mode")],
          ret |-> TRUE]
    ELSE [state |-> s, ret |-> FALSE]

safety_lockdown_check(s) ==
    IF s.mode.tag = "SafeMode" THEN [state |-> s, ret |-> FALSE]
    ELSE IF s.safety_fail_count >= s.safety_fail_limit
    THEN [state |-> [s EXCEPT !.mode =
                        SafeMode("safety_retries_exhausted_entering_safe_mode")],
          ret |-> TRUE]
    ELSE [state |-> s, ret |-> FALSE]

mark_ota_complete(s, success, reason) ==
    LET s1 == [s EXCEPT !.ota_in_progress = FALSE, !.ota_error_reason = reason]
    IN IF success
       THEN [state |-> [s1 EXCEPT !.last_status.ota_state = Some("active")],
             ret |-> RaiseUiState("ota_complete")]
       ELSE [state |-> [s1 EXCEPT !.last_status.ota_state = Some("failed")],
             ret |-> RaiseUiState("ota_failed")]

----------------------------------------------------------------------------
(* Inputs *)

Sources == {"trusted-host", "evil-host"}
AllowLists == { << >>, <<"trusted-host">>, <<"trusted-host", "*">> }
MsgIds == {<<"m", 1>>, <<"m", 2>>}
FrameSeqs == (0..MaxFrameSeq) \cup {U64_MAX}
Times == {0, 1}
Clocks == {<<1, 1>>}
CorrIds == {corr_id_of(k) : k \in 0..(MaxFrameSeq + MaxInFlight)} \cup {corr_id_of(U64_MAX)}
EmitActions == {"StatusGet"}

NoPayload == [status |-> None, command |-> None]
StatusPayload(status) == [status |-> Some(status), command |-> None]
CommandPayload(action, args) ==
    [status |-> None, command |-> Some([action |-> action, args |-> args])]

Frame(source, seq, message_id, kind, corr_id, issued_at, payload) ==
    [envelope |-> [seq |-> seq, source |-> source, message_id |-> message_id],
     kind |-> kind, corr_id |-> corr_id, issued_at |-> issued_at, payload |-> payload]

\* kind, corr_id and payload of a frame
Body(kind, corr_id, payload) == <<kind, corr_id, payload>>

SafeModeStatus == StatusPayload(DeviceStatus(TRUE, Some("safe_mode"), None))
OfflineStatus == StatusPayload(DeviceStatus(FALSE, Some("connected"), None))
ReconnectCommand == CommandPayload("Reconnect", EmptyMap)
OtaStartCommand == CommandPayload("OtaStart", [version |-> JsonStr("1.2.3")])

AckBodies(corr_ids) ==
    {Body(k, c, NoPayload) : k \in {"CommandAck", "CommandResult"},
                             c \in {None} \cup {Some(x) : x \in corr_ids}}

\* frames of either source with every seq and message id (kind Error), and frames
\* of the trusted source with the given bodies
FramesOf(sources, seqs, bodies) ==
    {Frame(src, seq, id, "Error", None, Some(0), NoPayload) :
        src \in sources, seq \in seqs, id \in MsgIds}
    \cup {Frame("trusted-host", seq, id, b[1], b[2], Some(0), b[3]) :
        seq \in seqs \ {0}, id \in MsgIds, b \in bodies}

\* frames of either source with one message id, no issue time, the given seqs and bodies
ProbesOf(seqs, bodies) ==
    {Frame(src, seq, <<"m", 1>>, b[1], b[2], None, b[3]) :
        src \in Sources, seq \in seqs, b \in bodies}

\* frames of the gate specification
GateBodies ==
    { Body("HelloAck", None, NoPayload),
      Body("Heartbeat", None, NoPayload),
      Body("StatusSnapshot", None, SafeModeStatus),
      Body("CommandAck", None, NoPayload) }
GateFrames == FramesOf(Sources, 0..MaxFrameSeq, GateBodies)

\* frames of the command specification
CmdBodies ==
    { Body("HelloAck", None, NoPayload),
      Body("TouchEvent", None, NoPayload),
      Body("Command", None, ReconnectCommand),
      Body("HostCommand", None, NoPayload) } \cup AckBodies(CorrIds)
\* the last family carries no issued_at: the heartbeat is then taken from the clock
CmdFrames ==
    FramesOf({"trusted-host"}, FrameSeqs, CmdBodies)
    \cup {Frame("trusted-host", seq, id, "Heartbeat", None, None, NoPayload) :
            seq \in FrameSeqs \ {0}, id \in MsgIds}

\* every frame the properties quantify over
OtherBodies ==
    { Body("StatusSnapshot", None, NoPayload),
      Body("StatusDelta", None, OfflineStatus),
      Body("Command", None, NoPayload),
      Body("HostCommand", None, OtaStartCommand),
      Body("HostCommand", None, CommandPayload("Retry", EmptyMap)),
      Body("Command", None, CommandPayload("Restart", EmptyMap)),
      Body("Command", None, CommandPayload("DiagnosticsSnapshot", EmptyMap)),
      Body("Command", None, CommandPayload("StatusGet", EmptyMap)) }
Frames ==
    GateFrames
    \cup ProbesOf({MaxFrameSeq, U64_MAX},
                  GateBodies \cup OtherBodies
                  \cup {Body("TouchEvent", None, NoPayload),
                        Body("Command", None, ReconnectCommand)}
                  \cup AckBodies({corr_id_of(1)}))

TouchEvent(phase, x, y) == [phase |-> phase, x |-> x, y |-> y]
\* touches that end before the scene is consulted: a release, a point outside the safe circle
GateTouches == {TouchEvent("Up", 150, 300), TouchEvent("Down", 1, 1)}
\* and touches inside the safe circle
TouchEvents ==
    GateTouches \cup {TouchEvent("Down", 150, 300), TouchEvent("Move", 180, 180),
                      TouchEvent("Cancel", 150, 300), TouchEvent("Unknown", 150, 300),
                      TouchEvent("Unknown", 400, 180)}

----------------------------------------------------------------------------
(* The touch pipeline (pipeline.rs).  The queue keeps the samples as pushed; *)
(* a sample is validated when next_frame takes it out.                       *)

TOUCH_QUEUE_CAPACITY == 32

TouchEventFrame(point, phase) == [point |-> point, phase |-> phase]

TouchPipeline_new == [queue |-> << >>, dropped_count |-> 0]

queue_depth(p) == Len(p.queue)
dropped_count(p) == p.dropped_count

\* a faulty variant: a push onto a full queue drops nothing
push_event_unbounded(p, payload) == [p EXCEPT !.queue = Append(@, payload)]

push_event(p, payload) ==
    IF Len(p.queue) >= TOUCH_QUEUE_CAPACITY
    THEN [queue |-> Append(Tail(p.queue), payload),
          dropped_count |-> p.dropped_count + 1]
    ELSE [p EXCEPT !.queue = Append(@, payload)]

next_frame(p) ==
    IF p.queue = << >> THEN [state |-> p, ret |-> None]
    ELSE LET sample == Head(p.queue)
             point == clamp_and_validate_touch(sample.x, sample.y)
         IN [state |-> [p EXCEPT !.queue = Tail(@)],
             ret |-> IF is_some(point)
                     THEN Some(TouchEventFrame(point[1], sample.phase))
                     ELSE None]

\* drain_from_driver: every payload the driver holds is pushed; returns their number
RECURSIVE drain_from_driver(_, _)
drain_from_driver(p, payloads) ==
    IF payloads = << >> THEN [state |-> p, ret |-> 0]
    ELSE LET rest == drain_from_driver(push_event(p, Head(payloads)), Tail(payloads))
         IN [state |-> rest.state, ret |-> rest.ret + 1]

----------------------------------------------------------------------------
(* The event bus (crates/microclaw-bus): the table bus_events and the Bus    *)
(* struct.  A row is [id, seq, device_id, session_id, message_id, payload];  *)
(* the seq column is a signed 64-bit INTEGER.                                *)

\* i64::MAX, scaled as U64_MAX is
I64_MAX == (U64_MAX + 1) \div 2 - 1

\* the cast `x as i64` of a u64
as_i64(x) == IF x > I64_MAX THEN x - (U64_MAX + 1) ELSE x

Max(a, b) == IF a >= b THEN a ELSE b

Envelope(seq, device_id, message_id) ==
    [v |-> 1, seq |-> seq, source |-> "device", device_id |-> device_id,
     session_id |-> "sess_default", message_id |-> message_id]

\* serde_json::to_string / from_str of an Envelope
to_string(env) == <<"json", env>>
from_str(payload) == payload[2]

\* SELECT MAX(seq) FROM bus_events, then unwrap_or(0).max(0) as u64
fetch_last_seq(rows) ==
    LET seqs == {rows[i].seq : i \in DOMAIN rows}
        max == IF seqs = {} THEN None
               ELSE Some(CHOOSE m \in seqs : \A x \in seqs : x <= m)
    IN Max(unwrap_or(max, 0), 0)

open_in_memory == [rows |-> << >>, last_seq |-> fetch_last_seq(<< >>)]

\* Bus::open on the file that holds the given rows
open(rows) == [rows |-> rows, last_seq |-> fetch_last_seq(rows)]

\* a faulty variant: the duplicate test looks at the message_id alone
publish_by_message_id(b, env) ==
    LET exists == Cardinality({i \in DOMAIN b.rows :
                                  b.rows[i].message_id = env.message_id})
        seq == IF env.seq <= b.last_seq
               THEN saturating_add(b.last_seq, 1, U64_MAX)
               ELSE env.seq
        stored == [env EXCEPT !.seq = seq]
    IN IF exists > 0 THEN [state |-> b, ret |-> FALSE]
       ELSE [state |-> [rows |-> Append(b.rows,
                                   [id |-> Len(b.rows) + 1,
                                    seq |-> as_i64(seq),
                                    device_id |-> stored.device_id,
                                    session_id |-> stored.session_id,
                                    message_id |-> stored.message_id,
                                    payload |-> to_string(stored)]),
                        last_seq |-> Max(b.last_seq, seq)],
             ret |-> TRUE]

publish(b, env) ==
    LET exists == Cardinality({i \in DOMAIN b.rows :
                                  /\ b.rows[i].device_id = env.device_id
                                  /\ b.rows[i].message_id = env.message_id})
        seq == IF env.seq <= b.last_seq
               THEN saturating_add(b.last_seq, 1, U64_MAX)
               ELSE env.seq
        stored == [env EXCEPT !.seq = seq]
    IN IF exists > 0 THEN [state |-> b, ret |-> FALSE]
       ELSE [state |-> [rows |-> Append(b.rows,
                                   [id |-> Len(b.rows) + 1,
                                    seq |-> as_i64(seq),
                                    device_id |-> stored.device_id,
                                    session_id |-> stored.session_id,
                                    message_id |-> stored.message_id,
                                    payload |-> to_string(stored)]),
                        last_seq |-> Max(b.last_seq, seq)],
             ret |-> TRUE]

\* ORDER BY seq ASC, id ASC
RowBefore(a, b) == a.seq < b.seq \/ (a.seq = b.seq /\ a.id < b.id)

RECURSIVE OrderBySeqId(_)
OrderBySeqId(rows) ==
    IF rows = {} THEN << >>
    ELSE LET first == CHOOSE r \in rows : \A o \in rows \ {r} : RowBefore(r, o)
         IN <<first>> \o OrderBySeqId(rows \ {first})

replay_from_seq(b, after_seq) ==
    LET selected == {b.rows[i] : i \in {j \in DOMAIN b.rows :
                                          b.rows[j].seq > as_i64(after_seq)}}
        ordered == OrderBySeqId(selected)
    IN [i \in DOMAIN ordered |-> from_str(ordered[i].payload)]

----------------------------------------------------------------------------
(* The execution queue (crates/microclaw-queue) *)

RetryPolicy(max_attempts, backoff_ms) ==
    [max_attempts |-> max_attempts, backoff_ms |-> backoff_ms]

QueuedItem(id, group, payload) ==
    [id |-> id, group |-> group, payload |-> payload, attempts |-> 0, ready_at_ms |-> 0]

ExecutionQueue_new(inflight_limit, retry) ==
    [per_group |-> EmptyMap, inflight_groups |-> {},
     inflight_limit |-> inflight_limit, inflight |-> 0, retry |-> retry]

\* per_group.entry(group).or_default()
entry_or_default(per_group, group) ==
    IF group \in DOMAIN per_group THEN per_group[group] ELSE << >>

enqueue(q, group, id, payload) ==
    [q EXCEPT !.per_group =
        map_insert(@, group, Append(entry_or_default(@, group),
                                    QueuedItem(id, group, payload)))]

\* the groups and ids the callers use
QueueGroups == {"g1", "g2"}
ItemIds == {"t1", "t2", "t3"}

\* the histories of a queue nothing was enqueued into
NoHandouts == [id \in ItemIds |-> 0]
NoArrivals == [g \in QueueGroups |-> << >>]

\* s without the entries equal to x
Without(s, x) == SelectSeq(s, LAMBDA y : y # x)

\* the order of the String keys of the BTreeMap
GroupOrder == <<"g1", "g2">>
KeyIndex(group) == CHOOSE i \in DOMAIN GroupOrder : GroupOrder[i] = group

\* a faulty variant: a group with an item in flight is not skipped
ReadyGroup_any(q, group, now_ms) ==
    /\ Len(q.per_group[group]) > 0
    /\ Head(q.per_group[group]).ready_at_ms <= now_ms

\* whether the loop of next_ready stops at this group
ReadyGroup(q, group, now_ms) ==
    /\ group \notin q.inflight_groups
    /\ Len(q.per_group[group]) > 0
    /\ Head(q.per_group[group]).ready_at_ms <= now_ms

\* a faulty variant: the cap is tested with > instead of >=
next_ready_over_limit(q, now_ms) ==
    IF q.inflight > q.inflight_limit THEN [state |-> q, ret |-> None]
    ELSE LET stops == {g \in DOMAIN q.per_group : ReadyGroup(q, g, now_ms)}
         IN IF stops = {} THEN [state |-> q, ret |-> None]
            ELSE LET group == CHOOSE g \in stops :
                                 \A o \in stops : KeyIndex(g) <= KeyIndex(o)
                     item == [Head(q.per_group[group]) EXCEPT !.attempts = @ + 1]
                 IN [state |-> [q EXCEPT !.per_group[group] = Tail(@),
                                         !.inflight = @ + 1,
                                         !.inflight_groups = @ \cup {item.group}],
                     ret |-> Some(item)]

\* a faulty variant: the attempt of the returned item is not counted
next_ready_uncounted(q, now_ms) ==
    IF q.inflight >= q.inflight_limit THEN [state |-> q, ret |-> None]
    ELSE LET stops == {g \in DOMAIN q.per_group : ReadyGroup(q, g, now_ms)}
         IN IF stops = {} THEN [state |-> q, ret |-> None]
            ELSE LET group == CHOOSE g \in stops :
                                 \A o \in stops : KeyIndex(g) <= KeyIndex(o)
                     item == Head(q.per_group[group])
                 IN [state |-> [q EXCEPT !.per_group[group] = Tail(@),
                                         !.inflight = @ + 1,
                                         !.inflight_groups = @ \cup {item.group}],
                     ret |-> Some(item)]

next_ready(q, now_ms) ==
    IF q.inflight >= q.inflight_limit THEN [state |-> q, ret |-> None]
    ELSE LET stops == {g \in DOMAIN q.per_group : ReadyGroup(q, g, now_ms)}
         IN IF stops = {} THEN [state |-> q, ret |-> None]
            ELSE LET group == CHOOSE g \in stops :
                                 \A o \in stops : KeyIndex(g) <= KeyIndex(o)
                     item == [Head(q.per_group[group]) EXCEPT !.attempts = @ + 1]
                 IN [state |-> [q EXCEPT !.per_group[group] = Tail(@),
                                         !.inflight = @ + 1,
                                         !.inflight_groups = @ \cup {item.group}],
                     ret |-> Some(item)]

\* u64 addition: the wrapped sum, and whether the sum overflows (a build with
\* overflow checks panics there, a build without them wraps)
wrapping_add(a, b) == (a + b) % (U64_MAX + 1)
add_overflows(a, b) == a + b > U64_MAX

\* the first two statements of complete
complete_released(q, item) ==
    [q EXCEPT !.inflight = saturating_sub(@, 1),
              !.inflight_groups = @ \ {item.group}]

\* complete reaches the addition and the addition overflows
complete_overflows(q, item, ok, now_ms) ==
    /\ ~(ok \/ item.attempts >= q.retry.max_attempts)
    /\ add_overflows(now_ms, q.retry.backoff_ms)

\* a faulty variant: the attempts are compared with > instead of >=
complete_past_limit(q, item, ok, now_ms) ==
    LET q1 == complete_released(q, item)
    IN IF ok \/ item.attempts > q.retry.max_attempts THEN q1
       ELSE [q1 EXCEPT !.per_group =
                map_insert(@, item.group,
                           Append(entry_or_default(@, item.group),
                                  [item EXCEPT !.ready_at_ms =
                                      wrapping_add(now_ms, q.retry.backoff_ms)]))]

\* complete as it returns (in a build with overflow checks only when
\* complete_overflows is false)
complete(q, item, ok, now_ms) ==
    LET q1 == complete_released(q, item)
    IN IF ok \/ item.attempts >= q.retry.max_attempts THEN q1
       ELSE [q1 EXCEPT !.per_group =
                map_insert(@, item.group,
                           Append(entry_or_default(@, item.group),
                                  [item EXCEPT !.ready_at_ms =
                                      wrapping_add(now_ms, q.retry.backoff_ms)]))]

----------------------------------------------------------------------------
(* The sandbox policy layer (crates/microclaw-sandbox).  A String is the     *)
(* sequence of its pieces; the pieces used are such that two sequences are  *)
(* equal exactly when the strings they spell are equal.                     *)

Str(piece) == << piece >>

\* str::starts_with
starts_with(s, prefix) ==
    /\ Len(prefix) <= Len(s)
    /\ SubSeq(s, 1, Len(prefix)) = prefix

Ok(value) == <<"Ok", value>>
Err(error) == <<"Err", error>>
is_ok(result) == result[1] = "Ok"
is_err(result) == result[1] = "Err"

Mount(source, target, read_only) ==
    [source |-> source, target |-> target, read_only |-> read_only]

Mount_read_only(source, target) == Mount(source, target, TRUE)

to_apple_arg(mount) ==
    <<"type", "=", "bind", ",", "src", "=">> \o mount.source
        \o <<",", "dst", "=">> \o mount.target
        \o (IF mount.read_only THEN <<",", "readonly">> ELSE << >>)

to_docker_arg(mount) ==
    mount.source \o <<":">> \o mount.target
        \o (IF mount.read_only THEN <<":", "ro">> ELSE << >>)

MountNotAllowed(source) == [tag |-> "MountNotAllowed", value |-> source]
EgressNotAllowed(host) == [tag |-> "EgressNotAllowed", value |-> host]

\* MountPolicy::validate, the policy given by its allowed_prefixes
MountPolicy_validate(allowed_prefixes, mounts) ==
    LET allowed(mount) ==
            \E i \in DOMAIN allowed_prefixes :
                starts_with(mount.source, allowed_prefixes[i])
        refused == {i \in DOMAIN mounts : ~allowed(mounts[i])}
    IN IF refused = {} THEN Ok(Unit)
       ELSE Err(MountNotAllowed(
               mounts[CHOOSE i \in refused : \A j \in refused : i <= j].source))

\* EgressPolicy::allows, the policy given by its allowlist
allows(allowlist, host) == \E i \in DOMAIN allowlist : allowlist[i] = host

\* the {:?} form of a PolicyError
Debug(error) == <<error.tag, "(\"">> \o error.value \o <<"\")">>

RunSpec_new(image, command) ==
    [image |-> image, command |-> command, mounts |-> << >>, env |-> << >>,
     egress_hosts |-> << >>]

add_mount(spec, mount) == [spec EXCEPT !.mounts = Append(@, mount)]
add_env(spec, key, value) == [spec EXCEPT !.env = Append(@, <<key, value>>)]
add_egress_host(spec, host) == [spec EXCEPT !.egress_hosts = Append(@, host)]

\* a faulty variant: the test is inverted
network_disabled_inverted(spec) == Len(spec.egress_hosts) # 0

network_disabled(spec) == Len(spec.egress_hosts) = 0

\* a faulty variant: the egress hosts are not validated
RunSpec_validate_mounts_only(spec, mount_policy, egress_policy) ==
    MountPolicy_validate(mount_policy, spec.mounts)

RunSpec_validate(spec, mount_policy, egress_policy) ==
    LET mounts == MountPolicy_validate(mount_policy, spec.mounts)
        refused == {i \in DOMAIN spec.egress_hosts :
                       ~allows(egress_policy, spec.egress_hosts[i])}
    IN IF is_err(mounts) THEN mounts
       ELSE IF refused = {} THEN Ok(Unit)
       ELSE Err(EgressNotAllowed(
               spec.egress_hosts[CHOOSE i \in refused : \A j \in refused : i <= j]))

NetworkNone == <<"--network", "=", "none">>

\* the sequences of the for loops of build_command: two arguments per entry
Flagged(flag, args) ==
    [i \in 1..(2 * Len(args)) |-> IF i % 2 = 1 THEN Str(flag) ELSE args[i \div 2]]

\* format!("{}={}", key, value)
EnvArg(pair) == pair[1] \o <<"=">> \o pair[2]

\* the body the two build_command functions share
BuildArgs(program, mount_flag, mount_args, env_flag, spec) ==
    <<Str(program), Str("run"), Str("--rm")>>
        \o (IF network_disabled(spec) THEN << NetworkNone >> ELSE << >>)
        \o Flagged(mount_flag, mount_args)
        \o Flagged(env_flag, [i \in DOMAIN spec.env |-> EnvArg(spec.env[i])])
        \o << spec.image >>
        \o spec.command

DockerRunner_build_command(spec) ==
    BuildArgs("docker", "-v",
              [i \in DOMAIN spec.mounts |-> to_docker_arg(spec.mounts[i])], "-e", spec)

AppleContainerRunner_build_command(spec) ==
    BuildArgs("container", "--mount",
              [i \in DOMAIN spec.mounts |-> to_apple_arg(spec.mounts[i])], "--env", spec)

CommandResult(status, stdout, stderr) ==
    [status |-> status, stdout |-> stdout, stderr |-> stderr]

\* the runners: AppleContainerRunner<E> and DockerRunnerExec<E>
Runners == {"apple", "docker"}

build_command(runner, spec) ==
    IF runner = "apple" THEN AppleContainerRunner_build_command(spec)
    ELSE DockerRunner_build_command(spec)

\* run: the executor is called with the built arguments and its result
\* (outcome) is returned; calls are the calls of Executor::run made
run(runner, spec, outcome) ==
    [calls |-> << build_command(runner, spec) >>, ret |-> outcome]

run_with_policy(runner, spec, mount_policy, egress_policy, outcome) ==
    LET valid == RunSpec_validate(spec, mount_policy, egress_policy)
    IN IF is_err(valid)
       THEN [calls |-> << >>,
             ret |-> Err(<<"policy violation: ">> \o Debug(valid[2]))]
       ELSE run(runner, spec, outcome)

AuditEvent(action, target, allowed) ==
    [action |-> action, target |-> target, allowed |-> allowed]

\* the HashSet of the entries of a Vec
into_set(list) == {list[i] : i \in DOMAIN list}

SecretBroker_new(allowlist, secrets) ==
    [allowlist |-> into_set(allowlist), secrets |-> secrets, audit |-> << >>]

\* AuditLog::record
record(audit, event) == Append(audit, event)

\* a faulty variant: the allowlist is not consulted, a stored secret is granted
request_any_stored(b, key) ==
    LET allowed == key \in DOMAIN b.secrets
        value == IF allowed THEN Some(b.secrets[key]) ELSE None
    IN [state |-> [b EXCEPT !.audit =
                      record(@, AuditEvent("secret.request", key, allowed))],
        ret |-> value]

\* a faulty variant: a denied request is not logged
request_log_allowed_only(b, key) ==
    LET allowed == key \in b.allowlist /\ key \in DOMAIN b.secrets
    IN [state |-> IF allowed
                  THEN [b EXCEPT !.audit =
                           record(@, AuditEvent("secret.request", key, allowed))]
                  ELSE b,
        ret |-> IF allowed THEN Some(b.secrets[key]) ELSE None]

request(b, key) ==
    LET allowed == key \in b.allowlist /\ key \in DOMAIN b.secrets
        value == IF allowed THEN Some(b.secrets[key]) ELSE None
    IN [state |-> [b EXCEPT !.audit =
                      record(@, AuditEvent("secret.request", key, allowed))],
        ret |-> value]

----------------------------------------------------------------------------
(* The runtime as a state machine *)

Denied == RaiseUiState("command_denied_unauthorized_source")
Rejected == RaiseUiState("replay_or_duplicate_rejected")

\* a runtime constructed with one of the allowlists
DeviceInit(allowlists) ==
    /\ \E hosts \in allowlists : rt = with_host_allowlist(hosts)
    /\ processed = {}
    /\ outstanding = << >>
    /\ denials = 0

\* the components a specification does not exercise, as constructed
BusIdle == bus = open_in_memory

QueueIdle ==
    /\ queue = ExecutionQueue_new(1, RetryPolicy(2, 1))
    /\ held = {}
    /\ handouts = NoHandouts
    /\ arrival = NoArrivals

SandboxIdle ==
    /\ runspec = RunSpec_new(Str("img"), << Str("sh") >>)
    /\ executed = << >>
    /\ broker = SecretBroker_new(<< >>, EmptyMap)
    /\ requested = << >>

PipelineIdle ==
    /\ pipeline = TouchPipeline_new
    /\ pushes = 0
    /\ yielded = 0

SchedulerIdle == store = << >>

PeerIdle == sent = 0

RestIdle == PipelineIdle /\ SchedulerIdle /\ PeerIdle

InitWith(allowlists) ==
    /\ DeviceInit(allowlists)
    /\ ret = [op |-> "new", value |-> ActionNone]
    /\ BusIdle
    /\ QueueIdle
    /\ SandboxIdle
    /\ RestIdle

\* one call of apply_transport_message, with the history it leaves
Applied(msg, clock) ==
    LET r == apply_transport_message(rt, msg, clock)
        accepted == r.ret \notin {Denied, Rejected}
        answers == IF /\ accepted
                      /\ msg.kind \in {"CommandAck", "CommandResult"}
                      /\ is_some(msg.corr_id)
                   THEN {msg.corr_id[1]}
                   ELSE {}
    IN /\ r.ret = Denied => denials < MaxDenials
       /\ Len(r.state.diagnostics) <= MaxDiag
       /\ rt' = r.state
       /\ ret' = [op |-> "apply_transport_message", value |-> r.ret]
       /\ processed' = IF accepted
                       THEN processed \cup {msg.envelope.message_id}
                       ELSE processed
       /\ outstanding' = SelectSeq(outstanding, LAMBDA c : c \notin answers)
       /\ denials' = IF r.ret = Denied THEN denials + 1
                     ELSE IF accepted /\ msg.kind = "HelloAck" THEN 0
                     ELSE denials

ApplyTransportMessage(frames) ==
    \E msg \in frames, clock \in Clocks : Applied(msg, clock) /\ UNCHANGED hostVars

EmitCommandStep(limit) ==
    \E action \in EmitActions, clock \in Clocks :
        LET r == emit_command(rt, action, clock)
        IN /\ Len(outstanding) < limit
           /\ rt' = r.state
           /\ ret' = [op |-> "emit_command", value |-> r.ret]
           /\ outstanding' = Append(outstanding, r.ret.corr_id[1])
           /\ UNCHANGED <<processed, denials, hostVars>>

ApplyTouchEvent(events) ==
    \E event \in events :
        LET r == apply_touch_event(rt, event)
        IN /\ rt' = r.state
           /\ ret' = [op |-> "apply_touch_event", value |-> r.ret]
           /\ UNCHANGED <<processed, outstanding, denials, hostVars>>

MarkOfflineIfStale ==
    \E now \in Times, timeout \in {0} :
        LET r == mark_offline_if_stale(rt, now, timeout)
        IN /\ Len(r.state.diagnostics) <= MaxDiag
           /\ rt' = r.state
           /\ ret' = [op |-> "mark_offline_if_stale", value |-> r.ret]
           /\ UNCHANGED <<processed, outstanding, denials, hostVars>>

SafetyLockdownCheck ==
    LET r == safety_lockdown_check(rt)
    IN /\ rt' = r.state
       /\ ret' = [op |-> "safety_lockdown_check", value |-> r.ret]
       /\ UNCHANGED <<processed, outstanding, denials, hostVars>>

MarkOtaComplete ==
    \E success \in {FALSE} :
        LET r == mark_ota_complete(rt, success,
                                   IF success THEN None ELSE Some("flash_failed"))
        IN /\ rt' = r.state
           /\ ret' = [op |-> "mark_ota_complete", value |-> r.ret]
           /\ UNCHANGED <<processed, outstanding, denials, hostVars>>

\* the gate specification: every allowlist, both sources, one command in flight
Init == InitWith(AllowLists)

Next ==
    \/ ApplyTransportMessage(GateFrames)
    \/ EmitCommandStep(MaxGateInFlight)
    \/ ApplyTouchEvent(GateTouches)
    \/ MarkOfflineIfStale
    \/ SafetyLockdownCheck
    \/ MarkOtaComplete

Spec == Init /\ [][Next]_vars

\* the command specification: no allowlist, several commands in flight
CmdInit == InitWith({ << >> })

CmdNext ==
    \/ ApplyTransportMessage(CmdFrames)
    \/ EmitCommandStep(MaxInFlight)
    \/ ApplyTouchEvent(TouchEvents)
    \/ MarkOfflineIfStale
    \/ SafetyLockdownCheck
    \/ MarkOtaComplete

SpecCmd == CmdInit /\ [][CmdNext]_vars

\* the flood specification: a host sends frame after frame with the next seq and
\* either a fresh message id or the first id again, past the seen-cache limit
FloodFrames ==
    {Frame("trusted-host", rt.last_seq + 1, id, "Error", None, Some(0), NoPayload) :
        id \in {<<"m", rt.last_seq + 1>>, <<"m", 1>>}}

FloodInit == InitWith({ << >> })

FloodNext == rt.last_seq < MaxFlood /\ ApplyTransportMessage(FloodFrames)

SpecFlood == FloodInit /\ [][FloodNext]_vars

\* the peer specification: one host numbers its frames 1, 2, 3, ... and gives
\* each a fresh message id; the frames carry every status (wifi up or down,
\* every mode string of the table, an unknown one, none), every kind of
\* command, and answers to the commands outstanding; emit_command and the other
\* operations of the runtime run in between
ModeStrings ==
    {"boot", "connected", "paired", "ready", "offline", "safe_mode", "error", "sleep"}

PeerStatuses ==
    {DeviceStatus(wifi_ok, mode, None) :
        wifi_ok \in BOOLEAN, mode \in {None} \cup {Some(m) : m \in ModeStrings}}

PeerCommands ==
    {CommandPayload(action, EmptyMap) :
        action \in {"Reconnect", "Retry", "Restart", "OtaStart",
                    "DiagnosticsSnapshot", "StatusGet", "Mute"}}
    \cup {OtaStartCommand, CommandPayload("OtaStart", [version |-> JsonNum("2")])}

PeerBodies(answerable) ==
    {Body("HelloAck", None, NoPayload), Body("Heartbeat", None, NoPayload),
     Body("StatusSnapshot", None, NoPayload), Body("Command", None, NoPayload)}
    \cup {Body(k, None, StatusPayload(st)) :
            k \in {"StatusSnapshot", "StatusDelta"}, st \in PeerStatuses}
    \cup {Body(k, None, c) : k \in {"Command", "HostCommand"}, c \in PeerCommands}
    \cup AckBodies(answerable)

\* the next frame of the host: seq and message id are those of its count
PeerFrame(n, body) ==
    Frame("trusted-host", n, <<"m", n>>, body[1], body[2], Some(0), body[3])

PeerFrames(n, answerable) == {PeerFrame(n, b) : b \in PeerBodies(answerable)}

PeerSends ==
    /\ sent < MaxSent
    /\ \E msg \in PeerFrames(sent + 1, {outstanding[i] : i \in DOMAIN outstanding}),
          clock \in Clocks :
            Applied(msg, clock)
    /\ sent' = sent + 1
    /\ UNCHANGED <<busVars, queueVars, sandboxVars, pipelineVars, schedulerVars>>

OtaCompletes ==
    \E success \in BOOLEAN :
        LET r == mark_ota_complete(rt, success,
                                   IF success THEN None ELSE Some("flash_failed"))
        IN /\ rt' = r.state
           /\ ret' = [op |-> "mark_ota_complete", value |-> r.ret]
           /\ UNCHANGED <<processed, outstanding, denials, hostVars>>

PeerInit == InitWith({ << >> })

PeerNext ==
    \/ PeerSends
    \/ EmitCommandStep(MaxPeerInFlight)
    \/ MarkOfflineIfStale
    \/ SafetyLockdownCheck
    \/ OtaCompletes

SpecPeer == PeerInit /\ [][PeerNext]_vars

\* the bus specification: envelopes of two devices and two message ids are
\* published with small and with the largest seqs, and the bus is closed and
\* opened again on the same file
BusDevices == {"dev1", "dev2"}
BusMessageIds == {"m1", "m2"}
BusSeqs == {0, 2, I64_MAX + 1, U64_MAX}
BusEnvelopes ==
    {Envelope(seq, d, m) : seq \in BusSeqs, d \in BusDevices, m \in BusMessageIds}

Publish ==
    \E env \in BusEnvelopes :
        LET r == publish(bus, env)
        IN /\ bus' = r.state
           /\ ret' = [op |-> "publish", value |-> r.ret]
           /\ UNCHANGED <<deviceVars, restVars, queueVars, sandboxVars>>

Reopen ==
    /\ bus' = open(bus.rows)
    /\ ret' = [op |-> "open", value |-> TRUE]
    /\ UNCHANGED <<deviceVars, restVars, queueVars, sandboxVars>>

BusInit ==
    /\ DeviceInit({ << >> })
    /\ ret = [op |-> "open_in_memory", value |-> TRUE]
    /\ bus = open_in_memory
    /\ QueueIdle
    /\ SandboxIdle
    /\ RestIdle

BusNext == Publish \/ Reopen

SpecBus == BusInit /\ [][BusNext]_vars

\* the queue specification: items are enqueued into two groups, handed out by
\* next_ready and completed, with and without success, by the caller that holds
\* them; an id is used again once its item is gone
QueueLimits == 0..MaxLimit
QueueAttempts == 0..MaxAttempts
QueueTimes == (0..MaxQueueTime) \cup {U64_MAX}

Waiting(q) == UNION {{q.per_group[g][i] : i \in DOMAIN q.per_group[g]} : g \in DOMAIN q.per_group}
IdsInUse == {it.id : it \in Waiting(queue) \cup held}

Enqueue ==
    \E group \in QueueGroups, id \in ItemIds \ IdsInUse :
        /\ queue' = enqueue(queue, group, id, "payload")
        /\ ret' = [op |-> "enqueue", value |-> Unit]
        /\ handouts' = [handouts EXCEPT ![id] = 0]
        /\ arrival' = [arrival EXCEPT ![group] = Append(@, id)]
        /\ UNCHANGED <<held, deviceVars, restVars, busVars, sandboxVars>>

NextReady ==
    \E now \in QueueTimes :
        LET r == next_ready(queue, now)
        IN /\ queue' = r.state
           /\ held' = IF is_some(r.ret) THEN held \cup {r.ret[1]} ELSE held
           /\ handouts' = IF is_some(r.ret)
                           THEN [handouts EXCEPT ![r.ret[1].id] = @ + 1]
                           ELSE handouts
           /\ UNCHANGED arrival
           /\ ret' = [op |-> "next_ready", value |-> r.ret]
           /\ UNCHANGED <<deviceVars, restVars, busVars, sandboxVars>>

\* complete returns, or panics at the overflowing addition of line 118 with the
\* item dropped by the unwinding
Complete ==
    \E item \in held, ok \in BOOLEAN, now \in QueueTimes :
        /\ \/ /\ queue' = complete(queue, item, ok, now)
              /\ ret' = [op |-> "complete", value |-> Unit]
           \/ /\ complete_overflows(queue, item, ok, now)
              /\ queue' = complete_released(queue, item)
              /\ ret' = [op |-> "complete panicked", value |-> Unit]
        /\ held' = held \ {item}
        /\ arrival' = IF item.id \in {it.id : it \in Waiting(queue')}
                      THEN arrival
                      ELSE [arrival EXCEPT ![item.group] = Without(@, item.id)]
        /\ UNCHANGED <<handouts, deviceVars, restVars, busVars, sandboxVars>>

QueueInit ==
    /\ DeviceInit({ << >> })
    /\ ret = [op |-> "new", value |-> Unit]
    /\ BusIdle
    /\ \E limit \in QueueLimits, attempts \in QueueAttempts :
          queue = ExecutionQueue_new(limit, RetryPolicy(attempts, 1))
    /\ held = {}
    /\ handouts = NoHandouts
    /\ arrival = NoArrivals
    /\ SandboxIdle
    /\ RestIdle

QueueNext == Enqueue \/ NextReady \/ Complete

SpecQueue == QueueInit /\ [][QueueNext]_vars

\* the caller keeps calling next_ready and keeps completing what it holds
SpecQueueFair == SpecQueue /\ WF_vars(NextReady) /\ WF_vars(Complete)

\* the runner specification: a RunSpec is built with mounts, environment pairs
\* and egress hosts and then handed, with a mount policy and an egress policy,
\* to the runners, whose executor succeeds or fails
Images == {Str("img"), NetworkNone}
Commands == {<< Str("sh") >>, << Str("sh"), NetworkNone >>}
MountChoices ==
    {Mount_read_only(<<"/", "allowed", "/", "data">>, <<"/", "w">>),
     Mount(<<"/", "allowed", "_other">>, <<"/", "w">>, FALSE),
     Mount_read_only(<<"/", "blocked">>, <<"/", "w">>)}
EnvChoices == {<<Str("K"), Str("v")>>, <<Str("--network"), Str("none")>>}
EgressHosts == {Str("api.example.com"), Str("other.example.com")}
MountPolicies ==
    {<< >>, << <<"/", "allowed">> >>, << <<"/", "blocked">>, <<"/", "allowed", "/">> >>}
EgressPolicies == {<< >>, << Str("api.example.com") >>}
Outcomes == {Ok(CommandResult(0, Str("ok"), << >>)), Err(Str("failed to execute"))}

NewRunSpec ==
    \E image \in Images, command \in Commands :
        /\ runspec' = RunSpec_new(image, command)
        /\ executed' = << >>
        /\ ret' = [op |-> "RunSpec::new", value |-> Unit]
        /\ UNCHANGED <<broker, requested, deviceVars, restVars, busVars, queueVars>>

AddMount ==
    \E mount \in MountChoices :
        /\ executed = << >>
        /\ Len(runspec.mounts) < MaxMounts
        /\ runspec' = add_mount(runspec, mount)
        /\ ret' = [op |-> "add_mount", value |-> Unit]
        /\ UNCHANGED <<executed, broker, requested, deviceVars, restVars, busVars, queueVars>>

AddEnv ==
    \E pair \in EnvChoices :
        /\ executed = << >>
        /\ Len(runspec.env) < MaxEnv
        /\ runspec' = add_env(runspec, pair[1], pair[2])
        /\ ret' = [op |-> "add_env", value |-> Unit]
        /\ UNCHANGED <<executed, broker, requested, deviceVars, restVars, busVars, queueVars>>

AddEgressHost ==
    \E host \in EgressHosts :
        /\ executed = << >>
        /\ Len(runspec.egress_hosts) < MaxEgress
        /\ runspec' = add_egress_host(runspec, host)
        /\ ret' = [op |-> "add_egress_host", value |-> Unit]
        /\ UNCHANGED <<executed, broker, requested, deviceVars, restVars, busVars, queueVars>>

RunWithPolicy ==
    \E runner \in Runners, mount_policy \in MountPolicies,
       egress_policy \in EgressPolicies, outcome \in Outcomes :
        LET r == run_with_policy(runner, runspec, mount_policy, egress_policy, outcome)
        IN /\ Len(executed) < MaxRuns
           /\ executed' = executed \o r.calls
           /\ ret' = [op |-> "run_with_policy", value |-> r.ret]
           /\ UNCHANGED <<runspec, broker, requested, deviceVars, restVars, busVars, queueVars>>

RunnerInit ==
    /\ DeviceInit({ << >> })
    /\ ret = [op |-> "new", value |-> Unit]
    /\ BusIdle
    /\ QueueIdle
    /\ SandboxIdle
    /\ RestIdle

RunnerNext == NewRunSpec \/ AddMount \/ AddEnv \/ AddEgressHost \/ RunWithPolicy

SpecRunner == RunnerInit /\ [][RunnerNext]_vars

\* the broker specification: a broker is constructed with one of the
\* allowlists and secrets maps and asked for keys
SecretKeys == {Str("API_KEY"), Str("TOKEN"), Str("DB_URL")}
BrokerAllowlists ==
    {<< >>, << Str("API_KEY") >>, << Str("API_KEY"), Str("TOKEN"), Str("API_KEY") >>}
BrokerSecrets ==
    {EmptyMap,
     map_insert(EmptyMap, Str("API_KEY"), Str("secret")),
     map_insert(map_insert(EmptyMap, Str("API_KEY"), Str("secret")),
                Str("DB_URL"), Str("postgres")),
     map_insert(map_insert(EmptyMap, Str("TOKEN"), Str("t0")),
                Str("DB_URL"), Str("sqlite"))}

Request ==
    \E key \in SecretKeys :
        LET r == request(broker, key)
        IN /\ Len(requested) < MaxRequests
           /\ broker' = r.state
           /\ requested' = Append(requested, key)
           /\ ret' = [op |-> "request", value |-> r.ret]
           /\ UNCHANGED <<runspec, executed, deviceVars, restVars, busVars, queueVars>>

BrokerInit ==
    /\ DeviceInit({ << >> })
    /\ ret = [op |-> "new", value |-> Unit]
    /\ BusIdle
    /\ QueueIdle
    /\ runspec = RunSpec_new(Str("img"), << Str("sh") >>)
    /\ executed = << >>
    /\ \E allowlist \in BrokerAllowlists, secrets \in BrokerSecrets :
          broker = SecretBroker_new(allowlist, secrets)
    /\ requested = << >>
    /\ RestIdle

BrokerNext == Request

SpecBroker == BrokerInit /\ [][BrokerNext]_vars

\* the pipeline specification: samples are pushed one by one or drained from a
\* driver two at a time, and taken out by next_frame.  The n-th sample pushed
\* is a touch inside the safe circle that carries n in its x coordinate, or
\* the touch (10, 10) outside it.
SampleInside(n) == TouchEvent(IF n % 2 = 1 THEN "Down" ELSE "Move", 100 + n, 180)
SampleOutside == TouchEvent("Down", 10, 10)
SampleNumber(frame) == frame.point.x - 100

InvalidQueued(p) == Cardinality({i \in DOMAIN p.queue : p.queue[i] = SampleOutside})

\* the usize drain_from_driver returns
Drained(n) == << [drained |-> n] >>

PushEvent ==
    \E payload \in {SampleInside(pushes + 1), SampleOutside} :
        /\ pushes < MaxPushes
        /\ payload = SampleOutside => InvalidQueued(pipeline) < MaxInvalid
        /\ pipeline' = push_event(pipeline, payload)
        /\ pushes' = pushes + 1
        /\ ret' = [op |-> "push_event", value |-> Unit]
        /\ UNCHANGED <<yielded, store, peerVars, deviceVars, busVars, queueVars, sandboxVars>>

DrainFromDriver ==
    LET r == drain_from_driver(pipeline,
                               <<SampleInside(pushes + 1), SampleInside(pushes + 2)>>)
    IN /\ pushes + 2 <= MaxPushes
       /\ pipeline' = r.state
       /\ pushes' = pushes + 2
       /\ ret' = [op |-> "drain_from_driver", value |-> Drained(r.ret)]
       /\ UNCHANGED <<yielded, store, peerVars, deviceVars, busVars, queueVars, sandboxVars>>

\* the samples next_frame has taken out of the queue
Taken == pushes - queue_depth(pipeline) - dropped_count(pipeline)

NextFrame ==
    LET r == next_frame(pipeline)
    IN /\ r.state # pipeline => Taken < MaxTaken
       /\ pipeline' = r.state
       /\ yielded' = IF is_some(r.ret) THEN SampleNumber(r.ret[1]) ELSE yielded
       /\ ret' = [op |-> "next_frame", value |-> r.ret]
       /\ UNCHANGED <<pushes, store, peerVars, deviceVars, busVars, queueVars, sandboxVars>>

PipelineInit ==
    /\ DeviceInit({ << >> })
    /\ ret = [op |-> "new", value |-> Unit]
    /\ BusIdle
    /\ QueueIdle
    /\ SandboxIdle
    /\ RestIdle

PipelineNext == PushEvent \/ DrainFromDriver \/ NextFrame

SpecPipeline == PipelineInit /\ [][PipelineNext]_vars

-----------------------------------------------------------------------------
(* The scene specification: Scene::action_for_touch is called once, for any
   scene and any point on, just inside or just outside the edges of the hit
   targets. *)

Scenes ==
    {"Boot", "ConnectSetup", "Paired", "Conversation", "AgentThinking", "AgentStreaming",
     "AgentTaskProgress", "Settings", "NotificationList", "Error", "Offline"}

AllTargets == UNION {{targets_for_scene(sc)[i] : i \in DOMAIN targets_for_scene(sc)} : sc \in Scenes}

EdgesOf(lo, len) == {lo - 1, lo, lo + len, lo + len + 1}

TouchXs == UNION {EdgesOf(t.x, t.w) : t \in AllTargets}

TouchYs == UNION {EdgesOf(t.y, t.h) : t \in AllTargets}

Pointed(sc, point) == << [scene |-> sc, point |-> point] >>

Touched(sc, point, action) == << [scene |-> sc, point |-> point, action |-> action] >>

\* a scene is shown and a point of it is touched
SceneInit ==
    /\ DeviceInit({ << >> })
    /\ \E sc \in Scenes, x \in TouchXs, y \in TouchYs :
          ret = [op |-> "touch", value |-> Pointed(sc, [x |-> x, y |-> y])]
    /\ BusIdle
    /\ QueueIdle
    /\ SandboxIdle
    /\ RestIdle

ActionForTouch ==
    /\ ret.op = "touch"
    /\ LET call == ret.value[1]
       IN  ret' = [op |-> "action_for_touch",
                   value |-> Touched(call.scene, call.point,
                                     action_for_touch(call.scene, call.point))]
    /\ UNCHANGED <<deviceVars, hostVars>>

SceneNext == ActionForTouch

SpecScene == SceneInit /\ [][SceneNext]_vars

-----------------------------------------------------------------------------
(* Reconnect backoff (apps/microclaw-device/src/lib.rs).  The shift is at most
   5, so the product is at most 16000 and saturating_mul never saturates. *)

\* a faulty variant: the shift is capped at 6
reconnect_backoff_ms_shift_six(attempt) ==
    LET a       == Max(attempt, 1)
        backoff == 500 * 2 ^ Min(a - 1, 6)
    IN  Min(backoff, 30000)

reconnect_backoff_ms(attempt) ==
    LET a       == Max(attempt, 1)
        backoff == 500 * 2 ^ Min(a - 1, 5)
    IN  Min(backoff, 30000)

BackoffAttempts == 0..MaxBackoffAttempt

Backoff(attempt, ms) == << [attempt |-> attempt, ms |-> ms] >>

\* the backoff specification: a connection attempt of any number fails and the
\* delay before the next one is computed
BackoffInit ==
    /\ DeviceInit({ << >> })
    /\ \E attempt \in BackoffAttempts :
          ret = [op |-> "attempt", value |-> Backoff(attempt, 0)]
    /\ BusIdle
    /\ QueueIdle
    /\ SandboxIdle
    /\ RestIdle

ReconnectBackoff ==
    /\ ret.op = "attempt"
    /\ LET attempt == ret.value[1].attempt
       IN  ret' = [op |-> "reconnect_backoff_ms",
                   value |-> Backoff(attempt, reconnect_backoff_ms(attempt))]
    /\ UNCHANGED <<deviceVars, hostVars>>

BackoffNext == ReconnectBackoff

SpecBackoff == BackoffInit /\ [][BackoffNext]_vars

-----------------------------------------------------------------------------
(* The recurrence scheduler over the scheduled_tasks table.  The table is a
   sequence of rows in rowid order.  next_run is stored as TEXT: an RFC 3339
   timestamp is the sequence of its bytes, here the fixed-width date and time
   "2026-02-12T00:00:SS" as one leading element (the second SS) followed by
   the bytes of the zone designator.  Two designators of UTC occur in the
   repository: "Z", which the rows inserted by tests/recurrence.rs carry, and
   "+00:00", which DateTime<Utc>::to_rfc3339 writes. *)

ZoneZ == <<90>>

ZoneNumeric == <<43, 48, 48, 58, 48, 48>>

Zones == {ZoneZ, ZoneNumeric}

Instants == 0..MaxInstant

TaskIds == {"t" \o ToString(n) : n \in 1..MaxTasks}

TaskStatuses == {"active", "paused"}

to_rfc3339(instant) == <<instant>> \o ZoneNumeric

parse_from_rfc3339(text) ==
    IF Len(text) > 1 /\ Tail(text) \in Zones THEN Some(Head(text)) ELSE None

\* SQLite's comparison of two TEXT values under the BINARY collation: memcmp
\* over the common length, then the shorter value first.
RECURSIVE text_le(_, _)
text_le(a, b) ==
    IF a = << >> THEN TRUE
    ELSE IF b = << >> THEN FALSE
    ELSE IF Head(a) = Head(b) THEN text_le(Tail(a), Tail(b))
    ELSE Head(a) < Head(b)

ScheduleType_from_str(value) ==
    IF value \in {"once", "interval", "cron"} THEN Ok(value) ELSE Err(value)

TaskRow(id, schedule_type, next_run, status) ==
    [id |-> id, schedule_type |-> schedule_type, next_run |-> next_run, status |-> status]

ScheduledTask(row) ==
    [id            |-> row.id,
     schedule_type |-> IF is_ok(ScheduleType_from_str(row.schedule_type))
                       THEN row.schedule_type ELSE "once",
     next_run      |-> IF is_some(row.next_run)
                       THEN parse_from_rfc3339(row.next_run[1]) ELSE None,
     status        |-> row.status]

\* WHERE status = 'active' AND next_run IS NOT NULL AND next_run <= ?
due_rows(table, now_value) ==
    SelectSeq(table, LAMBDA row : /\ row.status = "active"
                                  /\ is_some(row.next_run)
                                  /\ text_le(row.next_run[1], now_value))

\* ORDER BY next_run ASC: every arrangement of the selected rows in which the
\* stored texts do not decrease (the order of equal keys is SQLite's choice).
order_by_next_run(rows) ==
    LET n == Len(rows)
        arrangements == {p \in [1..n -> 1..n] : \A i, j \in 1..n : p[i] = p[j] => i = j}
    IN  {[i \in 1..n |-> rows[p[i]]] :
            p \in {q \in arrangements :
                     \A i, j \in 1..n :
                        i < j => text_le(rows[q[i]].next_run[1], rows[q[j]].next_run[1])}}

\* The possible results of due_tasks(conn, now); the table is only read.
due_tasks(table, now) ==
    {[i \in DOMAIN rows |-> ScheduledTask(rows[i])] :
        rows \in order_by_next_run(due_rows(table, to_rfc3339(now)))}

update_task_after_run(table, id, next_run) ==
    [i \in DOMAIN table |->
        IF table[i].id = id
        THEN [table[i] EXCEPT !.next_run =
                 IF is_some(next_run) THEN Some(to_rfc3339(next_run[1])) ELSE None]
        ELSE table[i]]

Due(now, tasks) == << [now |-> now, tasks |-> tasks] >>

\* INSERT INTO scheduled_tasks, with next_run as the repository's rows carry
\* it: NULL, or a timestamp with either designator of UTC.
InsertTask ==
    \E id \in TaskIds, status \in TaskStatuses, instant \in Instants, zone \in Zones,
       set \in BOOLEAN :
        /\ id \notin {store[i].id : i \in DOMAIN store}
        /\ store' = Append(store, TaskRow(id, "interval",
                               IF set THEN Some(<<instant>> \o zone) ELSE None, status))
        /\ ret' = [op |-> "insert", value |-> Unit]
        /\ UNCHANGED <<deviceVars, busVars, queueVars, sandboxVars, pipelineVars, peerVars>>

UpdateTaskAfterRun ==
    \E id \in TaskIds, instant \in Instants, set \in BOOLEAN :
        /\ store' = update_task_after_run(store, id, IF set THEN Some(instant) ELSE None)
        /\ ret' = [op |-> "update_task_after_run", value |-> Unit]
        /\ UNCHANGED <<deviceVars, busVars, queueVars, sandboxVars, pipelineVars, peerVars>>

DueTasks ==
    \E now \in Instants :
        \E tasks \in due_tasks(store, now) :
            /\ ret' = [op |-> "due_tasks", value |-> Due(now, tasks)]
            /\ UNCHANGED <<store, deviceVars, busVars, queueVars, sandboxVars, pipelineVars, peerVars>>

SchedulerInit ==
    /\ DeviceInit({ << >> })
    /\ ret = [op |-> "open_in_memory", value |-> Unit]
    /\ BusIdle
    /\ QueueIdle
    /\ SandboxIdle
    /\ RestIdle

SchedulerNext == InsertTask \/ UpdateTaskAfterRun \/ DueTasks

SpecScheduler == SchedulerInit /\ [][SchedulerNext]_vars

----------------------------------------------------------------------------
(* Properties.  The gates as the specification words them: *)

AllowlistHosts(s) == {s.host_allowlist[i] : i \in DOMAIN s.host_allowlist}

PassesAllowlist(s, msg) ==
    \/ AllowlistHosts(s) = {}
    \/ msg.envelope.source \in AllowlistHosts(s)
    \/ "*" \in AllowlistHosts(s)

PassesReplay(s, msg) ==
    /\ msg.envelope.seq > s.last_seq
    /\ msg.envelope.message_id \notin DOMAIN s.seen_message_ids

\* what the dispatch of an accepted frame of this kind may return
KindReturns(msg) ==
    CASE msg.kind = "HelloAck" -> {RaiseUiState("connected")}
      [] msg.kind \in {"StatusSnapshot", "StatusDelta"} -> {RaiseUiState("status_updated")}
      [] msg.kind \in {"Command", "HostCommand"} ->
            {RaiseUiState(m) : m \in {"command_reconnect", "command_retry",
                "command_restart", "command_ota_start", "command_diagnostics",
                "command_received", "command_parse_error"}}
      [] msg.kind = "CommandAck" ->
            IF is_some(msg.corr_id) THEN {EmitAck(msg.corr_id[1], "command_ack")}
            ELSE {ActionNone}
      [] msg.kind = "CommandResult" -> {RaiseUiState("command_result")}
      [] msg.kind = "Error" -> {RaiseUiState("host_error")}
      [] OTHER -> {ActionNone}

LockdownMode == SafeMode("safety_retries_exhausted_entering_safe_mode")

\* the last operation was op and returned value
Returned(op, value) == ret.op = op /\ ret.value = value

\* C1: apply_transport_message accepts a frame (last_seq becomes its seq, its
\* message_id is recorded, the kind's dispatch result is returned) if and only if
\* the source passes the allowlist and seq > last_seq and message_id is not in
\* seen; a frame of an allowed source failing a replay condition returns
\* RaiseUiState("replay_or_duplicate_rejected") and changes nothing.
C1_AcceptIffGatesPass ==
    \A msg \in Frames, clock \in Clocks :
        LET r == apply_transport_message(rt, msg, clock)
            allowed == PassesAllowlist(rt, msg)
            fresh == PassesReplay(rt, msg)
        IN /\ (allowed /\ fresh) =>
                /\ r.state.last_seq = msg.envelope.seq
                /\ msg.envelope.message_id \in DOMAIN r.state.seen_message_ids
                /\ r.ret \in KindReturns(msg)
           /\ (allowed /\ ~fresh) => (r.ret = Rejected /\ r.state = rt)
           /\ ~allowed =>
                /\ r.ret = Denied
                /\ r.state.last_seq = rt.last_seq
                /\ r.state.seen_message_ids = rt.seen_message_ids

\* a frame of an allowed source was rejected by the replay gate after earlier frames were accepted
C1_Witness ==
    /\ Returned("apply_transport_message", Rejected)
    /\ rt.last_seq > 0
    /\ map_len(rt.seen_message_ids) = 2

\* frames that present the given message ids again, with a stale, the next and the largest seq
ProbeFrames(ids) ==
    {Frame("trusted-host", seq, id, "Error", None, Some(0), NoPayload) :
        seq \in {rt.last_seq, rt.last_seq + 1, U64_MAX}, id \in ids}

IsRejected(msg) ==
    apply_transport_message(rt, msg, <<0, 0>>).ret \in {Denied, Rejected}

LastSeqIsAcceptedSeq ==
    \A msg \in FloodFrames \cup ProbeFrames(processed) :
        LET r == apply_transport_message(rt, msg, <<0, 0>>)
        IN r.ret \notin {Denied, Rejected} => r.state.last_seq = msg.envelope.seq

\* C2 as stated: after an accepted frame last_seq is the frame's seq, and every
\* message_id processed at any earlier point is rejected when presented again,
\* whatever seq it carries.
C2_ProcessedIdsAlwaysRejected ==
    /\ LastSeqIsAcceptedSeq
    /\ \A msg \in ProbeFrames(processed) : IsRejected(msg)

\* C2 as amended: after an accepted frame last_seq is the frame's seq; every
\* message_id processed earlier is rejected when presented again, whatever seq it
\* carries, as long as at most 513 distinct ids have been processed (the seen
\* cache has not yet been emptied); at any time an id still in the cache is
\* rejected, and an earlier id carrying seq <= last_seq is rejected.
C2_ProcessedIdsRejectedUntilOverflow ==
    /\ LastSeqIsAcceptedSeq
    /\ Cardinality(processed) <= SEEN_LIMIT + 1 =>
            \A msg \in ProbeFrames(processed) : IsRejected(msg)
    /\ \A msg \in ProbeFrames(DOMAIN rt.seen_message_ids) : IsRejected(msg)
    /\ \A msg \in ProbeFrames(processed) :
            msg.envelope.seq <= rt.last_seq => IsRejected(msg)

\* with the cache at its largest, 513 ids, the first id was presented again and rejected
C2_Witness ==
    /\ Cardinality(processed) = SEEN_LIMIT + 1
    /\ map_len(rt.seen_message_ids) = SEEN_LIMIT + 1
    /\ Returned("apply_transport_message", Rejected)

\* C3: once safety_lockdown_check has put the runtime in SafeMode, mode stays
\* SafeMode under every later runtime operation.
C3_LockdownSafeModeSticky ==
    [][rt.mode = LockdownMode => rt'.mode.tag = "SafeMode"]_vars

\* C4: in_flight holds exactly one entry per outstanding emit_command: its
\* corr_ids are the corr_ids of the commands emitted and not yet answered by an
\* accepted CommandAck or CommandResult of the same corr_id, one entry for each
\* such command, each filed under its own corr_id; and an accepted CommandAck or
\* CommandResult removes the entry of its corr_id and no other.
C4_InFlightIsOutstanding ==
    /\ DOMAIN rt.in_flight = {outstanding[i] : i \in DOMAIN outstanding}
    /\ in_flight_count(rt) = Len(outstanding)
    /\ \A c \in DOMAIN rt.in_flight : rt.in_flight[c].corr_id = c
    /\ \A msg \in CmdFrames, clock \in Clocks :
          LET r == apply_transport_message(rt, msg, clock)
          IN (/\ msg.kind \in {"CommandAck", "CommandResult"}
              /\ is_some(msg.corr_id)
              /\ PassesReplay(rt, msg)) =>
                /\ DOMAIN r.state.in_flight = (DOMAIN rt.in_flight) \ {msg.corr_id[1]}
                /\ \A c \in DOMAIN r.state.in_flight : r.state.in_flight[c] = rt.in_flight[c]

\* C5 as stated: with a non-empty allowlist without "*", a frame of an unlisted
\* source is denied whatever the replay gate would say: safety_fail_count grows
\* by exactly 1, the result is RaiseUiState("command_denied_unauthorized_source")
\* and nothing else of the state changes.  With an empty allowlist or one
\* containing "*" no frame is denied.
C5_UnlistedSourceDenied ==
    \A msg \in Frames, clock \in Clocks :
        LET r == apply_transport_message(rt, msg, clock)
            hosts == AllowlistHosts(rt)
        IN /\ (hosts # {} /\ "*" \notin hosts /\ msg.envelope.source \notin hosts) =>
                /\ r.ret = Denied
                /\ r.state = [rt EXCEPT !.safety_fail_count = rt.safety_fail_count + 1]
           /\ (hosts = {} \/ "*" \in hosts) => r.ret # Denied

\* C5 as amended: the same, except that safety_fail_count grows by exactly 1
\* only below u32::MAX and stays u32::MAX once it has reached it.
C5_UnlistedSourceDeniedSaturating ==
    \A msg \in Frames, clock \in Clocks :
        LET r == apply_transport_message(rt, msg, clock)
            hosts == AllowlistHosts(rt)
            count == IF rt.safety_fail_count < U32_MAX
                     THEN rt.safety_fail_count + 1
                     ELSE U32_MAX
        IN /\ (hosts # {} /\ "*" \notin hosts /\ msg.envelope.source \notin hosts) =>
                /\ r.ret = Denied
                /\ r.state = [rt EXCEPT !.safety_fail_count = count]
           /\ (hosts = {} \/ "*" \in hosts) => r.ret # Denied

\* a frame was denied with safety_fail_count already at its largest value, after
\* an earlier frame had been accepted
C5_Witness ==
    /\ Returned("apply_transport_message", Denied)
    /\ rt.safety_fail_count = U32_MAX
    /\ denials > U32_MAX
    /\ rt.last_seq > 0

C7_HelloAckConnects ==
    \A msg \in Frames, clock \in Clocks :
        LET r == apply_transport_message(rt, msg, clock)
        IN (msg.kind = "HelloAck" /\ PassesAllowlist(rt, msg) /\ PassesReplay(rt, msg)) =>
                /\ r.state.mode = Connected
                /\ r.state.offline_since_ms = None
                /\ r.state.safety_fail_count = 0
                /\ r.ret = RaiseUiState("connected")

\* a HelloAck was accepted by a runtime with a restrictive allowlist
C7_Witness ==
    /\ Returned("apply_transport_message", RaiseUiState("connected"))
    /\ rt.host_allowlist = <<"trusted-host">>
    /\ rt.mode = Connected

\* C8 as stated: safety_fail_count grows by 1 exactly when a frame is denied,
\* becomes 0 exactly when a HelloAck is accepted, and no other operation changes it.
C8_SafetyCountChanges ==
    [][ IF ret'.op = "apply_transport_message" /\ ret'.value = Denied
        THEN rt'.safety_fail_count = rt.safety_fail_count + 1
        ELSE IF ret'.op = "apply_transport_message"
                /\ ret'.value = RaiseUiState("connected")
        THEN rt'.safety_fail_count = 0
        ELSE rt'.safety_fail_count = rt.safety_fail_count ]_vars

\* C8 as amended: a denied frame adds 1 to safety_fail_count below u32::MAX and
\* leaves it at u32::MAX once there, an accepted HelloAck makes it 0, and no
\* other operation changes it.
C8_SafetyCountChangesSaturating ==
    [][ IF ret'.op = "apply_transport_message" /\ ret'.value = Denied
        THEN rt'.safety_fail_count = IF rt.safety_fail_count < U32_MAX
                                     THEN rt.safety_fail_count + 1
                                     ELSE U32_MAX
        ELSE IF ret'.op = "apply_transport_message"
                /\ ret'.value = RaiseUiState("connected")
        THEN rt'.safety_fail_count = 0
        ELSE rt'.safety_fail_count = rt.safety_fail_count ]_vars

\* a Heartbeat (it returns None) was accepted while failures were counted
C8_Witness ==
    /\ Returned("apply_transport_message", ActionNone)
    /\ rt.mode = Connected
    /\ rt.safety_fail_count > 0

\* C9: safety_lockdown_check returns true and sets
\* mode = SafeMode("safety_retries_exhausted_entering_safe_mode") exactly when
\* mode is not SafeMode and safety_fail_count >= safety_fail_limit = 5; otherwise
\* it returns false and changes nothing.  After 5 frames denied with no accepted
\* HelloAck in between the check enters SafeMode (unless already there), after
\* fewer it does not.
C9_LockdownExactlyAtLimit ==
    LET r == safety_lockdown_check(rt)
        enters == rt.mode.tag # "SafeMode" /\ rt.safety_fail_count >= 5
    IN /\ rt.safety_fail_limit = 5
       /\ enters => (r.ret = TRUE /\ r.state = [rt EXCEPT !.mode = LockdownMode])
       /\ ~enters => (r.ret = FALSE /\ r.state = rt)
       /\ (denials >= 5 /\ rt.mode.tag # "SafeMode") => r.ret = TRUE
       /\ denials < 5 => r.ret = FALSE

\* the check returned true after exactly 5 denied frames
C9_Witness ==
    /\ Returned("safety_lockdown_check", TRUE)
    /\ rt.mode = LockdownMode
    /\ denials = 5

\* C10: emit_command allocates seq = last_seq + 1 and leaves it in last_seq,
\* names the frame "cmd-{seq}" and "corr-{seq}" and records in_flight[corr_id];
\* that corr_id is fresh, it is the corr_id of no entry of in_flight, so every
\* emit_command adds exactly one entry.
C10_EmitAllocatesFreshCorrId ==
    \A action \in EmitActions, clock \in Clocks :
        LET r == emit_command(rt, action, clock)
            seq == r.ret.envelope.seq
        IN /\ seq = rt.last_seq + 1
           /\ r.state.last_seq = seq
           /\ r.ret.envelope.message_id = cmd_id(seq)
           /\ r.ret.corr_id = Some(corr_id_of(seq))
           /\ corr_id_of(seq) \notin DOMAIN rt.in_flight
           /\ corr_id_of(seq) \in DOMAIN r.state.in_flight
           /\ in_flight_count(r.state) = in_flight_count(rt) + 1

\* C11: a Command or HostCommand frame that passes the gates and whose payload
\* does not parse returns RaiseUiState("command_parse_error") and mutates no
\* state: the RuntimeState after the call equals the RuntimeState before it.
C11_ParseErrorLeavesState ==
    [][ /\ \A msg \in CmdFrames, clock \in Clocks :
              (/\ msg.kind \in {"Command", "HostCommand"}
               /\ ~is_some(as_device_command(msg))
               /\ PassesAllowlist(rt, msg) /\ PassesReplay(rt, msg))
              => apply_transport_message(rt, msg, clock).ret
                    = RaiseUiState("command_parse_error")
        /\ (/\ ret'.op = "apply_transport_message"
            /\ ret'.value = RaiseUiState("command_parse_error"))
           => rt' = rt ]_vars

\* the clock readings and timeouts C12 is stated over
StaleNows == 0..3
StaleTimeouts == 0..2

\* C12: mark_offline_if_stale(now, timeout) returns true exactly when mode is not
\* Offline, a heartbeat has been recorded and now - last_heartbeat_ms > timeout;
\* it then sets mode = Offline and offline_since_ms = now and appends the
\* diagnostic "heartbeat_stale".  Otherwise it returns false and changes nothing.
C12_StaleExactlyPastTimeout ==
    \A now \in StaleNows, timeout \in StaleTimeouts :
        LET r == mark_offline_if_stale(rt, now, timeout)
            stale == /\ rt.mode.tag # "Offline"
                     /\ is_some(rt.last_heartbeat_ms)
                     /\ now - rt.last_heartbeat_ms[1] > timeout
        IN /\ stale =>
                /\ r.ret = TRUE
                /\ r.state = [rt EXCEPT !.mode = Offline,
                                        !.offline_since_ms = Some(now),
                                        !.diagnostics = Append(@, "heartbeat_stale")]
           /\ ~stale => (r.ret = FALSE /\ r.state = rt)

\* the runtime went Offline because its heartbeat was stale
C12_Witness ==
    /\ Returned("mark_offline_if_stale", TRUE)
    /\ rt.mode = Offline
    /\ rt.offline_since_ms = Some(1)
    /\ rt.last_heartbeat_ms = Some(0)
    /\ rt.diagnostics = <<"heartbeat_stale">>

\* C13: in every reachable state the seen message-id cache holds at most 512
\* ids; when accepting a frame would overflow it, the cache is emptied before the
\* new id is recorded.
C13_SeenAtMost512 ==
    /\ map_len(rt.seen_message_ids) <= SEEN_LIMIT
    /\ \A msg \in FloodFrames :
          LET r == apply_transport_message(rt, msg, <<0, 0>>)
          IN (PassesReplay(rt, msg) /\ map_len(rt.seen_message_ids) = SEEN_LIMIT) =>
                DOMAIN r.state.seen_message_ids = {msg.envelope.message_id}

----------------------------------------------------------------------------
(* Properties of the bus *)

StoredKeys(b) == {<<b.rows[i].device_id, b.rows[i].message_id>> : i \in DOMAIN b.rows}
KeyOf(env) == <<env.device_id, env.message_id>>
\* the seq of the envelope a row stores
StoredSeq(row) == from_str(row.payload).seq
LastRow(b) == b.rows[Len(b.rows)]
MaxOf(S) == IF S = {} THEN 0 ELSE CHOOSE m \in S : \A x \in S : x <= m

\* C14: the log holds at most one row per (device_id, message_id); publishing an
\* envelope whose (device_id, message_id) is stored returns false and changes
\* neither the rows nor last_seq; an envelope whose pair is not stored, the same
\* message_id under another device_id included, is inserted and returns true.
C14_PublishIdempotent ==
    /\ \A i, j \in DOMAIN bus.rows :
          (/\ bus.rows[i].device_id = bus.rows[j].device_id
           /\ bus.rows[i].message_id = bus.rows[j].message_id) => i = j
    /\ \A env \in BusEnvelopes :
          LET r == publish(bus, env)
          IN IF KeyOf(env) \in StoredKeys(bus)
             THEN r.ret = FALSE /\ r.state = bus
             ELSE /\ r.ret = TRUE
                  /\ Len(r.state.rows) = Len(bus.rows) + 1
                  /\ SubSeq(r.state.rows, 1, Len(bus.rows)) = bus.rows
                  /\ KeyOf(from_str(LastRow(r.state).payload)) = KeyOf(env)
                  /\ <<LastRow(r.state).device_id, LastRow(r.state).message_id>> = KeyOf(env)

\* a stored envelope was published again and refused, with its message_id stored
\* under both devices
C14_Witness ==
    /\ Returned("publish", FALSE)
    /\ {<<"dev1", "m1">>, <<"dev2", "m1">>} \subseteq StoredKeys(bus)

\* C15: every inserted row has a seq strictly greater than the seq of every row
\* inserted before it; publish stores an incoming seq unchanged when it is
\* greater than last_seq and as last_seq + 1 otherwise, in the seq column and in
\* the payload alike; last_seq is the maximum stored seq (0 for an empty log).
C15_StoredSeqStrictlyMonotonic ==
    [][ /\ \A i, j \in DOMAIN bus'.rows : i < j => bus'.rows[i].seq < bus'.rows[j].seq
        /\ bus'.last_seq = MaxOf({bus'.rows[i].seq : i \in DOMAIN bus'.rows})
        /\ \A env \in BusEnvelopes :
              (/\ ret'.op = "publish" /\ ret'.value = TRUE
               /\ bus' = publish(bus, env).state)
              => LET expected == IF env.seq > bus.last_seq THEN env.seq
                                 ELSE bus.last_seq + 1
                 IN /\ LastRow(bus').seq = expected
                    /\ StoredSeq(LastRow(bus')) = expected ]_vars

\* the cursors replay is asked for
BusCursors == BusSeqs \cup {1, I64_MAX}

\* the stored envelopes with seq > after, in ascending seq order, ties by row id
EnvelopesAfter(b, after) ==
    LET bySeq == {[seq |-> StoredSeq(b.rows[i]), id |-> b.rows[i].id,
                   payload |-> b.rows[i].payload] : i \in DOMAIN b.rows}
        ordered == OrderBySeqId({r \in bySeq : r.seq > after})
    IN [i \in DOMAIN ordered |-> from_str(ordered[i].payload)]

\* C16: replay_from_seq(x) returns exactly the stored envelopes whose seq is
\* greater than x, each once, in ascending seq order, ties broken by insertion id.
C16_ReplayExactlyAfterCursor ==
    \A x \in BusCursors : replay_from_seq(bus, x) = EnvelopesAfter(bus, x)

\* C17: closing a file-backed bus and opening it again gives the same
\* replay_from_seq(x) for every x, a last_seq equal to the maximum stored seq (0
\* if empty), still refuses every stored (device_id, message_id), and gives every
\* later publish a seq strictly greater than all stored seqs.
C17_RestartKeepsBus ==
    [][ ret'.op = "open" =>
          /\ \A x \in BusCursors : replay_from_seq(bus', x) = replay_from_seq(bus, x)
          /\ bus'.last_seq = MaxOf({StoredSeq(bus.rows[i]) : i \in DOMAIN bus.rows})
          /\ \A env \in BusEnvelopes :
                LET r == publish(bus', env)
                IN IF KeyOf(env) \in StoredKeys(bus)
                   THEN r.ret = FALSE
                   ELSE /\ r.ret = TRUE
                        /\ \A i \in DOMAIN bus.rows :
                              StoredSeq(LastRow(r.state)) > StoredSeq(bus.rows[i]) ]_vars

----------------------------------------------------------------------------
(* Properties of the execution queue *)

HeldGroups == {it.group : it \in held}

\* group has a waiting head item that is ready at every time
HeadReady(group) ==
    /\ group \in DOMAIN queue.per_group
    /\ Len(queue.per_group[group]) > 0
    /\ Head(queue.per_group[group]).ready_at_ms = 0

\* the last operation was a next_ready that returned an item of group
Handed(group) ==
    /\ ret.op = "next_ready"
    /\ is_some(ret.value)
    /\ ret.value[1].group = group

\* C18: at every moment at most one item of each group is in flight, and
\* next_ready never returns an item of a group whose previously returned item
\* has not been completed.
C18_OneInFlightPerGroup ==
    /\ \A a, b \in held : a.group = b.group => a = b
    /\ \A now \in QueueTimes :
          LET r == next_ready(queue, now)
          IN is_some(r.ret) => r.ret[1].group \notin HeldGroups

\* next_ready returned nothing below the cap although the group of the held item
\* has a ready item waiting
C18_Witness ==
    /\ Returned("next_ready", None)
    /\ queue.inflight < queue.inflight_limit
    /\ \E it \in held : HeadReady(it.group)

\* C19: the number of in-flight items never exceeds inflight_limit; next_ready
\* returns None whenever inflight = inflight_limit, and with inflight_limit = 0
\* it never returns an item.
C19_GlobalCap ==
    /\ Cardinality(held) <= queue.inflight_limit
    /\ queue.inflight <= queue.inflight_limit
    /\ \A now \in QueueTimes :
          (queue.inflight = queue.inflight_limit \/ queue.inflight_limit = 0)
              => next_ready(queue, now).ret = None

\* next_ready returned nothing at the cap although another group has a ready item
C19_Witness ==
    /\ Returned("next_ready", None)
    /\ queue.inflight = queue.inflight_limit
    /\ queue.inflight_limit = 1
    /\ \E g \in QueueGroups \ HeldGroups : HeadReady(g)

\* C20: if a group has a ready head item and the caller keeps calling next_ready
\* and completing every returned item, that head item is eventually returned,
\* also with inflight_limit = 1 and other groups receiving new ready items.
C20_NoStarvation ==
    \A g \in QueueGroups :
        (queue.inflight_limit >= 1 /\ HeadReady(g)) ~> Handed(g)

\* the step is a complete(item, false, now) of a held item with attempts left
FailedCompletion(item, now) ==
    /\ item \in held
    /\ item.attempts < queue.retry.max_attempts
    /\ held' = held \ {item}
    /\ \/ ret'.op = "complete" /\ queue' = complete(queue, item, FALSE, now)
       \/ /\ ret'.op = "complete panicked"
          /\ complete_overflows(queue, item, FALSE, now)

\* C21: after complete(item, false, now) with attempts < max_attempts the item
\* is the last of its group with ready_at_ms = now + backoff_ms; next_ready(t)
\* does not return it for any t < now + backoff_ms, and at t = now + backoff_ms
\* its ready_at_ms no longer holds it back.
C21_RetryBackoffFloor ==
    [][ \A item \in held, now \in QueueTimes :
          FailedCompletion(item, now) =>
            LET floor == now + queue.retry.backoff_ms
                group == entry_or_default(queue'.per_group, item.group)
            IN /\ Len(group) > 0
               /\ group[Len(group)] = [item EXCEPT !.ready_at_ms = floor]
               /\ \A t \in QueueTimes :
                     LET r == next_ready(queue', t)
                     IN (t < floor /\ is_some(r.ret)) => r.ret[1].id # item.id ]_vars

\* the step is a complete of item that returned and did not re-queue it: a
\* successful one, or a failed one with item.attempts as given by exhausted
FinalCompletion(item, exhausted) ==
    /\ item \in held
    /\ ret'.op = "complete"
    /\ held' = held \ {item}
    /\ \E ok \in BOOLEAN, now \in QueueTimes :
          /\ queue' = complete(queue, item, ok, now)
          /\ ok \/ exhausted

\* the attempts fields count the hand-outs, no item was handed out more than
\* bound times, and next_ready returns waiting items only
HandoutsCounted(bound) ==
    /\ \A it \in held' \cup Waiting(queue') :
          it.attempts = handouts'[it.id] /\ handouts'[it.id] <= bound
    /\ (ret'.op = "next_ready" /\ is_some(ret'.value) /\ held' # held)
          => [ret'.value[1] EXCEPT !.attempts = @ - 1] \in Waiting(queue)

\* C22 as stated: each enqueued item is returned by next_ready at most
\* max_attempts times, its attempts field counting the hand-outs 1, 2, ...; after
\* a failed completion with attempts = max_attempts, or any successful
\* completion, the item is neither waiting nor held, so it is not returned again.
C22_AtMostMaxAttempts ==
    [][ /\ HandoutsCounted(queue.retry.max_attempts)
        /\ \A item \in held :
              FinalCompletion(item, item.attempts = queue.retry.max_attempts)
                 => item.id \notin {it.id : it \in Waiting(queue') \cup held'} ]_vars

\* C22 as the queue keeps it: each enqueued item is returned by next_ready at
\* most max(1, max_attempts) times (once also under max_attempts = 0), its
\* attempts field counting the hand-outs; after a failed completion with
\* attempts >= max_attempts, or any successful completion, the item is neither
\* waiting nor held, so it is not returned again.
C22_AtMostMaxAttemptsOrOnce ==
    [][ /\ HandoutsCounted(Max(1, queue.retry.max_attempts))
        /\ \A item \in held :
              FinalCompletion(item, item.attempts >= queue.retry.max_attempts)
                 => item.id \notin {it.id : it \in Waiting(queue') \cup held'} ]_vars

\* an item was handed out twice under max_attempts = 2 and is gone after a
\* failed completion of its second attempt
C22_Witness ==
    /\ Returned("complete", Unit)
    /\ queue.retry.max_attempts = 2
    /\ queue.inflight = 0
    /\ Waiting(queue) = {}
    /\ \E id \in ItemIds : handouts[id] = 2

\* the place of id in the order of the enqueue calls of its group
ArrivalIndex(group, id) ==
    CHOOSE i \in DOMAIN arrival[group] : arrival[group][i] = id

\* C23: next_ready never returns an item of a group while an item that was
\* enqueued earlier into the same group is still waiting in that group's queue.
C23_GroupFifo ==
    [][ (ret'.op = "next_ready" /\ is_some(ret'.value)) =>
          LET item == ret'.value[1]
              left == queue'.per_group[item.group]
          IN \A i \in DOMAIN left :
                ArrivalIndex(item.group, item.id) < ArrivalIndex(item.group, left[i].id) ]_vars

----------------------------------------------------------------------------
(* Properties of the sandbox policy layer *)

\* every mount source begins with an allowed prefix and every egress host is
\* an entry of the allowlist
PassesPolicies(spec, mount_policy, egress_policy) ==
    /\ \A i \in DOMAIN spec.mounts : \E j \in DOMAIN mount_policy :
          starts_with(spec.mounts[i].source, mount_policy[j])
    /\ \A i \in DOMAIN spec.egress_hosts :
          spec.egress_hosts[i] \in into_set(egress_policy)

\* C24: run_with_policy of either runner returns an error and never invokes
\* the executor when a mount source matches no allowed prefix or an egress host
\* is not in the allowlist; it invokes the executor, once, only for a spec that
\* passes both policies.
C24_ValidatesBeforeLaunch ==
    \A runner \in Runners, mount_policy \in MountPolicies,
       egress_policy \in EgressPolicies, outcome \in Outcomes :
        LET r == run_with_policy(runner, runspec, mount_policy, egress_policy, outcome)
        IN IF PassesPolicies(runspec, mount_policy, egress_policy)
           THEN r.calls = << build_command(runner, runspec) >> /\ r.ret = outcome
           ELSE r.calls = << >> /\ is_err(r.ret)

\* a spec whose mounts are all allowed was refused for an egress host, and the
\* executor was not invoked
C24_Witness ==
    /\ ret.op = "run_with_policy"
    /\ is_err(ret.value)
    /\ starts_with(ret.value[2], <<"policy violation: ", "EgressNotAllowed">>)
    /\ Len(runspec.mounts) > 0
    /\ executed = << >>

\* key is in the allowlist and in the secrets map of the broker
Granted(b, key) == key \in b.allowlist /\ key \in DOMAIN b.secrets

\* C25: request(key) returns Some(value) if and only if key is in the allowlist
\* and in the secrets map; every call appends exactly one AuditEvent
\* {"secret.request", key, allowed} with allowed equal to whether a value was
\* returned; after n requests the log holds n entries in request order, and
\* earlier entries never change.
C25_RequestAudited ==
    [][ /\ Len(broker'.audit) = Len(requested')
        /\ \A i \in DOMAIN requested' :
              broker'.audit[i] = AuditEvent("secret.request", requested'[i],
                                            Granted(broker, requested'[i]))
        /\ SubSeq(broker'.audit, 1, Len(broker.audit)) = broker.audit
        /\ ret'.op = "request" =>
              LET key == requested'[Len(requested')]
                  logged == broker'.audit[Len(broker'.audit)]
              IN /\ Len(broker'.audit) = Len(broker.audit) + 1
                 /\ is_some(ret'.value) <=> Granted(broker, key)
                 /\ is_some(ret'.value) => ret'.value[1] = broker.secrets[key]
                 /\ logged.allowed = is_some(ret'.value) ]_vars

\* a third request was granted after a denied one and a granted one
C25_Witness ==
    /\ ret.op = "request"
    /\ is_some(ret.value)
    /\ Len(broker.audit) = 3
    /\ ~broker.audit[1].allowed
    /\ broker.audit[2].allowed

\* the positions of args that hold the string "--network=none"
NetworkNoneAt(args) == {i \in DOMAIN args : args[i] = NetworkNone}

\* C26 as stated: for every RunSpec both command builders emit the argument
\* "--network=none" if and only if egress_hosts is empty, and when present it
\* sits directly after "--rm", before all mounts, envs, the image and the
\* command words.
C26_NetworkNoneIffNoEgress ==
    \A runner \in Runners :
        LET args == build_command(runner, runspec)
        IN /\ NetworkNoneAt(args) # {} <=> Len(runspec.egress_hosts) = 0
           /\ NetworkNoneAt(args) # {} =>
                 args[3] = Str("--rm") /\ NetworkNoneAt(args) = {4}

\* C26 as the builders keep it: after the runner, "run" and "--rm" both
\* builders emit one argument "--network=none" of their own if and only if
\* egress_hosts is empty, directly after "--rm"; everything after it is two
\* arguments per mount, two per env pair, the image and the command words,
\* copied from the RunSpec, so any other "--network=none" in the list is the
\* RunSpec's own image, env pair or command word.
C26_NetworkFlagIffNoEgress ==
    \A runner \in Runners :
        LET args == build_command(runner, runspec)
            own == IF Len(runspec.egress_hosts) = 0 THEN 1 ELSE 0
            copied == 2 * Len(runspec.mounts) + 2 * Len(runspec.env)
                        + 1 + Len(runspec.command)
        IN /\ Len(args) = 3 + own + copied
           /\ args[2] = Str("run") /\ args[3] = Str("--rm")
           /\ own = 1 => args[4] = NetworkNone
           /\ SubSeq(args, Len(args) - Len(runspec.command) + 1, Len(args))
                 = runspec.command
           /\ args[Len(args) - Len(runspec.command)] = runspec.image
           /\ \A i \in DOMAIN runspec.mounts :
                 args[3 + own + 2 * i - 1] \in {Str("-v"), Str("--mount")}
           /\ \A i \in DOMAIN runspec.env :
                 /\ args[3 + own + 2 * Len(runspec.mounts) + 2 * i - 1]
                       \in {Str("-e"), Str("--env")}
                 /\ args[3 + own + 2 * Len(runspec.mounts) + 2 * i]
                       = runspec.env[i][1] \o <<"=">> \o runspec.env[i][2]

\* a RunSpec with mounts and no egress host was run: the executor got
\* "--network=none" directly after "--rm"
C26_Witness ==
    /\ executed # << >>
    /\ Len(runspec.egress_hosts) = 0
    /\ Len(runspec.mounts) > 0
    /\ executed[1][3] = Str("--rm")
    /\ executed[1][4] = NetworkNone

----------------------------------------------------------------------------
(* Properties of the touch pipeline *)

\* the sample is inside the safe circle
Inside(sample) == is_some(clamp_and_validate_touch(sample.x, sample.y))

\* the samples inside the safe circle are queued in the order of their pushes
InPushOrder(q) ==
    \A i \in DOMAIN q :
        Inside(q[i]) => \A j \in (i + 1)..Len(q) : Inside(q[j]) => q[i].x < q[j].x

\* C27: queue_depth is at most 32 after any sequence of push_event,
\* drain_from_driver and next_frame; a push onto a full queue drops the oldest
\* entry and increments dropped_count, which never decreases; next_frame
\* yields the surviving frames in the order they were pushed.
C27_PipelineBounded ==
    [][ /\ queue_depth(pipeline') <= 32
        /\ dropped_count(pipeline') >= dropped_count(pipeline)
        /\ (ret'.op = "push_event" /\ queue_depth(pipeline) = 32) =>
              /\ dropped_count(pipeline') = dropped_count(pipeline) + 1
              /\ SubSeq(pipeline'.queue, 1, 31) = Tail(pipeline.queue)
        /\ (ret'.op = "push_event" /\ queue_depth(pipeline) < 32) =>
              /\ dropped_count(pipeline') = dropped_count(pipeline)
              /\ SubSeq(pipeline'.queue, 1, queue_depth(pipeline)) = pipeline.queue
        /\ (ret'.op = "next_frame" /\ is_some(ret'.value)) =>
              /\ SampleNumber(ret'.value[1]) > yielded
              /\ ret'.value[1].point.x = Head(pipeline.queue).x
              /\ ret'.value[1].phase = Head(pipeline.queue).phase
              /\ pipeline'.queue = Tail(pipeline.queue)
        /\ InPushOrder(pipeline'.queue) ]_vars

\* after an overflow next_frame yielded the oldest surviving frame, not the
\* first one pushed
C27_Witness ==
    /\ ret.op = "next_frame"
    /\ is_some(ret.value)
    /\ dropped_count(pipeline) > 0
    /\ yielded > 1
    /\ queue_depth(pipeline) = 31

\* C28: the queue holds only validated frames: a sample outside the safe
\* circle pushed by push_event does not increase queue_depth, evicts nothing,
\* and is never yielded by next_frame.
C28_OnlyValidatedQueued ==
    [][ /\ \A i \in DOMAIN pipeline'.queue : Inside(pipeline'.queue[i])
        /\ (ret'.op = "push_event" /\ pipeline' = push_event(pipeline, SampleOutside))
              => pipeline' = pipeline
        /\ (ret'.op = "next_frame" /\ is_some(ret'.value))
              => in_safe_circle(ret'.value[1].point.x, ret'.value[1].point.y) ]_vars

----------------------------------------------------------------------------
(* Properties of the scheduler. *)

NextRunInstant(row) == parse_from_rfc3339(row.next_run[1])[1]

IsDue(row, now) ==
    /\ row.status = "active"
    /\ is_some(row.next_run)
    /\ NextRunInstant(row) <= now

\* C29: due_tasks(store, now) returns exactly the active tasks whose next_run
\* is set and <= now, each once, in ascending order of next_run, and leaves
\* the store as it was.
C29_DueTasksExact ==
    [][ ret'.op = "due_tasks" =>
          LET now   == ret'.value[1].now
              tasks == ret'.value[1].tasks
          IN  /\ store' = store
              /\ {tasks[i].id : i \in DOMAIN tasks}
                    = {store[i].id : i \in {k \in DOMAIN store : IsDue(store[k], now)}}
              /\ \A i, j \in DOMAIN tasks : tasks[i].id = tasks[j].id => i = j
              /\ \A i, j \in DOMAIN tasks :
                    i < j => tasks[i].next_run[1] <= tasks[j].next_run[1] ]_vars

----------------------------------------------------------------------------
(* Properties of touch handling. *)

ClampedPoint(event) ==
    [x |-> Min(event.x, DISPLAY_WIDTH - 1), y |-> Min(event.y, DISPLAY_HEIGHT - 1)]

TargetsHit(mode, point) ==
    LET ts == targets_for_scene(scene_of(mode))
    IN  {ts[i] : i \in {k \in DOMAIN ts : hit(ts[k], point)}}

\* C30: apply_touch_event returns None for the phases Up and Cancel; for Down,
\* Move and Unknown it returns EmitCommand with the action of a hit target
\* exactly when the clamped point is inside the safe circle and the scene of
\* the current mode has a hit target containing it, and None otherwise.  In
\* mode Booting a Down at (150,300) yields EmitCommand{Retry}; a Down at (1,1)
\* yields None.
C30_ApplyTouchEvent ==
    [][ \A event \in TouchEvents :
          ( /\ ret'.op = "apply_touch_event"
            /\ rt' = apply_touch_event(rt, event).state
            /\ ret'.value = apply_touch_event(rt, event).ret )
          => LET p    == ClampedPoint(event)
                 hits == TargetsHit(rt.mode, p)
             IN  /\ event.phase \in {"Up", "Cancel"} => ret'.value = ActionNone
                 /\ event.phase \in {"Down", "Move", "Unknown"} =>
                       IF in_safe_circle(p.x, p.y) /\ hits # {}
                       THEN \E t \in hits : ret'.value = EmitCommand(t.action)
                       ELSE ret'.value = ActionNone
                 /\ (rt.mode = Booting /\ event = TouchEvent("Down", 150, 300))
                       => ret'.value = EmitCommand("Retry")
                 /\ event = TouchEvent("Down", 1, 1) => ret'.value = ActionNone ]_vars

C30_Witness ==
    /\ Returned("apply_touch_event", EmitCommand("Retry"))
    /\ rt.mode = Booting

----------------------------------------------------------------------------
(* Properties of frame effects. *)

\* C31: a frame rejected by the replay/stale gate is discarded without effect:
\* the whole RuntimeState is the same before and after the call, so a replayed
\* or stale frame changes neither the mode nor the recorded heartbeat.
C31_RejectedFrameNoEffect ==
    [][ (ret'.op = "apply_transport_message" /\ ret'.value = Rejected) => rt' = rt ]_vars

C31_Witness ==
    /\ Returned("apply_transport_message", Rejected)
    /\ rt.last_seq > 0
    /\ is_some(rt.last_heartbeat_ms)
    /\ rt.mode # Booting

StatusFrames(n) ==
    {PeerFrame(n, Body(k, None, StatusPayload(st))) :
        k \in {"StatusSnapshot", "StatusDelta"}, st \in PeerStatuses}

\* the frame msg was applied in this step and passed both gates
AcceptedStep(msg) ==
    /\ ret'.op = "apply_transport_message"
    /\ sent' = msg.envelope.seq
    /\ \E clock \in Clocks :
          LET r == apply_transport_message(rt, msg, clock)
          IN  /\ r.ret \notin {Denied, Rejected}
              /\ rt' = r.state
              /\ ret'.value = r.ret

ModeOfStatus(mode_string, old) ==
    IF mode_string = None THEN old
    ELSE CASE mode_string[1] = "boot" -> Booting
           [] mode_string[1] \in {"connected", "paired", "ready"} -> Connected
           [] mode_string[1] = "offline" -> Offline
           [] mode_string[1] = "safe_mode" -> SafeMode("host_reported_safe_mode")
           [] mode_string[1] = "error" -> Error("host_reported_error")
           [] OTHER -> old

\* C32: an accepted StatusSnapshot or StatusDelta whose payload parses returns
\* RaiseUiState("status_updated"); with wifi_ok false the runtime is Offline
\* with offline_since_ms recorded and the diagnostic "status_wifi_not_ok"
\* pushed, and the mode string of the payload is not applied; with wifi_ok
\* true the mode follows the table, an unknown or absent string leaving it.
C32_StatusApplied ==
    [][ \A msg \in StatusFrames(sent') :
          AcceptedStep(msg) =>
            LET status == msg.payload.status[1]
            IN  /\ ret'.value = RaiseUiState("status_updated")
                /\ ~status.wifi_ok =>
                      /\ rt'.mode = Offline
                      /\ is_some(rt'.offline_since_ms)
                      /\ rt.mode # Offline =>
                            rt'.diagnostics = Append(rt.diagnostics, "status_wifi_not_ok")
                /\ status.wifi_ok => rt'.mode = ModeOfStatus(status.mode, rt.mode) ]_vars

CommandFrames(n) ==
    {PeerFrame(n, Body(k, None, c)) : k \in {"Command", "HostCommand"}, c \in PeerCommands}

VersionOf(args) ==
    IF "version" \in DOMAIN args /\ args["version"].t = "string"
    THEN Some(args["version"].v) ELSE None

\* C33: an accepted Command or HostCommand with a parsable payload changes the
\* mode only so: Reconnect sets Offline, Retry and Restart set Booting, every
\* other action leaves it.  OtaStart sets ota_in_progress, takes
\* ota_target_version from args.version (None when absent or not a string) and
\* clears ota_error_reason; ota_in_progress then stays true in every step
\* that is not mark_ota_complete.
C33_CommandEffects ==
    [][ /\ \A msg \in CommandFrames(sent') :
              AcceptedStep(msg) =>
                LET command == msg.payload.command[1]
                IN  /\ rt'.mode = CASE command.action = "Reconnect" -> Offline
                                    [] command.action \in {"Retry", "Restart"} -> Booting
                                    [] OTHER -> rt.mode
                    /\ command.action = "OtaStart" =>
                          /\ rt'.ota_in_progress
                          /\ rt'.ota_target_version = VersionOf(command.args)
                          /\ rt'.ota_error_reason = None
        /\ (rt.ota_in_progress /\ ret'.op # "mark_ota_complete") => rt'.ota_in_progress ]_vars

C33_Witness ==
    /\ Returned("apply_transport_message", RaiseUiState("command_ota_start"))
    /\ rt.ota_in_progress
    /\ rt.ota_target_version = Some("1.2.3")
    /\ rt.mode = Offline
    /\ rt.last_status.ota_state = Some("failed")

----------------------------------------------------------------------------
(* Properties of the execution queue as a whole. *)

\* the groups next_ready may take an item from at now: not in flight, head ready
Candidates(now) ==
    {g \in DOMAIN queue.per_group :
        /\ g \notin queue.inflight_groups
        /\ queue.per_group[g] # << >>
        /\ queue.per_group[g][1].ready_at_ms <= now}

\* C34: next_ready(now) returns None at the cap; otherwise the head of the first
\* group in ascending key order that is not in flight and whose head is ready,
\* and None if there is no such group.  The returned item has attempts one
\* higher, inflight is one higher and the group is marked in flight; when None
\* is returned the queue is unchanged.
C34_NextReadyContract ==
    \A now \in QueueTimes :
        LET r == next_ready(queue, now)
            q == r.state
        IN  IF queue.inflight >= queue.inflight_limit \/ Candidates(now) = {}
            THEN r.ret = None /\ q = queue
            ELSE LET first == CHOOSE g \in Candidates(now) :
                                \A o \in Candidates(now) : KeyIndex(g) <= KeyIndex(o)
                     head  == queue.per_group[first][1]
                 IN  /\ r.ret = Some([head EXCEPT !.attempts = head.attempts + 1])
                     /\ q.per_group[first] = Tail(queue.per_group[first])
                     /\ \A g \in DOMAIN queue.per_group \ {first} :
                           q.per_group[g] = queue.per_group[g]
                     /\ DOMAIN q.per_group = DOMAIN queue.per_group
                     /\ q.inflight = queue.inflight + 1
                     /\ q.inflight_groups = queue.inflight_groups \cup {first}
                     /\ q.inflight_limit = queue.inflight_limit
                     /\ q.retry = queue.retry

\* next_ready passed over the waiting, not yet ready head of g1 and returned the
\* head of g2 for its second attempt, leaving a later item of g2 waiting
C34_Witness ==
    /\ ret.op = "next_ready"
    /\ is_some(ret.value)
    /\ ret.value[1].group = "g2"
    /\ ret.value[1].attempts = 2
    /\ "g1" \in DOMAIN queue.per_group
    /\ "g1" \notin queue.inflight_groups
    /\ queue.per_group["g1"] # << >>
    /\ queue.per_group["g2"] # << >>
    /\ queue.inflight_groups = {"g2"}
    /\ queue.inflight = 1

----------------------------------------------------------------------------
(* Properties of scene hit testing. *)

Contains(t, p) == t.x <= p.x /\ p.x <= t.x + t.w /\ t.y <= p.y /\ p.y <= t.y + t.h

\* C35: Scene::action_for_touch returns the action of the first target, in the
\* scene's declaration order, whose rectangle contains the point with inclusive
\* bounds, and None when no target contains it or the scene has none; where
\* rectangles overlap the target declared earlier wins (in Conversation, Mute
\* and EndSession before OpenConversation).
C35_FirstHitWins ==
    ret.op = "action_for_touch" =>
        LET call == ret.value[1]
            ts   == targets_for_scene(call.scene)
            hits == {i \in DOMAIN ts : Contains(ts[i], call.point)}
        IN  /\ hits = {} => call.action = None
            /\ hits # {} =>
                  \E i \in hits : /\ \A j \in hits : i <= j
                                  /\ call.action = Some(ts[i].action)
            /\ (call.scene = "Conversation" /\ Contains(ts[1], call.point))
                  => call.action = Some("Mute")
            /\ (call.scene = "Conversation" /\ Contains(ts[2], call.point))
                  => call.action = Some("EndSession")

\* a point on the shared corner of Mute and OpenConversation
C35_Witness ==
    /\ ret.op = "action_for_touch"
    /\ ret.value[1].scene = "Conversation"
    /\ ret.value[1].point = [x |-> 176, y |-> 334]
    /\ ret.value[1].action = Some("Mute")

----------------------------------------------------------------------------
(* Properties of the reconnect backoff. *)

\* min(30000, 500 * 2^(min(attempt,6) - 1)), the power taken in the rationals
BackoffFormula(attempt) == Min(30000, (500 * 2 ^ Min(attempt, 6)) \div 2)

BackoffShape(call) ==
    /\ call.ms <= 30000
    /\ \A earlier \in 0..call.attempt : reconnect_backoff_ms(earlier) <= call.ms
    /\ reconnect_backoff_ms(1) < reconnect_backoff_ms(2)

\* C36: for every attempt number reconnect_backoff_ms(attempt) equals
\* min(30000, 500 * 2^(min(attempt,6) - 1)); the result is non-decreasing in
\* attempt, strictly increasing from attempt 1 to attempt 2, and never exceeds
\* 30000.
C36_BackoffFormula ==
    ret.op = "reconnect_backoff_ms" =>
        /\ ret.value[1].ms = BackoffFormula(ret.value[1].attempt)
        /\ BackoffShape(ret.value[1])

\* C36 as the code has it: the formula holds from attempt 1 on, and attempt 0
\* is taken for attempt 1.
C36_BackoffFormulaFromOne ==
    ret.op = "reconnect_backoff_ms" =>
        /\ ret.value[1].attempt >= 1 => ret.value[1].ms = BackoffFormula(ret.value[1].attempt)
        /\ ret.value[1].attempt = 0 => ret.value[1].ms = BackoffFormula(1)
        /\ BackoffShape(ret.value[1])

C36_Witness ==
    /\ ret.op = "reconnect_backoff_ms"
    /\ ret.value[1].attempt = 7
    /\ ret.value[1].ms = 16000

----------------------------------------------------------------------------
(* Properties of a host that numbers its frames. *)

\* the host's frame msg was applied in this step
PeerStep(msg) ==
    /\ ret'.op = "apply_transport_message"
    /\ sent' = sent + 1
    /\ msg.envelope.seq = sent'
    /\ \E clock \in Clocks :
          LET r == apply_transport_message(rt, msg, clock)
          IN  rt' = r.state /\ ret'.value = r.ret

\* C37: a host that numbers its frames 1, 2, 3, ... and gives each a fresh
\* message id has every frame accepted, however many emit_command calls happen
\* in between, and its CommandAck or CommandResult answering an emitted
\* command is accepted and clears the in_flight entry of that command.
C37_HonestPeerAccepted ==
    [][ \A msg \in PeerFrames(sent + 1, {outstanding[i] : i \in DOMAIN outstanding}) :
          PeerStep(msg) =>
            /\ ret'.value \notin {Denied, Rejected}
            /\ (msg.kind \in {"CommandAck", "CommandResult"} /\ is_some(msg.corr_id))
                  => msg.corr_id[1] \notin DOMAIN rt'.in_flight ]_vars

----------------------------------------------------------------------------
(* Conservation of the items of the execution queue. *)

WaitingIds(q) == {it.id : it \in Waiting(q)}

WaitingCount(q) ==
    Cardinality(UNION {{<<g, i>> : i \in DOMAIN q.per_group[g]} : g \in DOMAIN q.per_group})

\* complete let the item go for good: it succeeded or its attempts are used up
Finished(item) ==
    /\ ret'.op = "complete"
    /\ \E ok \in BOOLEAN, now \in QueueTimes :
          /\ queue' = complete(queue, item, ok, now)
          /\ ok \/ item.attempts >= queue.retry.max_attempts

\* C38: under any sequence of enqueue, next_ready and complete (of an item
\* next_ready returned) every enqueued item is in exactly one place: waiting in
\* the queue of its group, handed out, or finished (completed ok, or failed
\* with attempts >= max_attempts); no item is lost or duplicated, and inflight
\* equals the number of handed-out items and the size of inflight_groups.
C38_Conservation ==
    [][ /\ WaitingIds(queue') \cap {it.id : it \in held'} = {}
        /\ Cardinality(WaitingIds(queue')) = WaitingCount(queue')
        /\ Cardinality({it.id : it \in held'}) = Cardinality(held')
        /\ queue'.inflight = Cardinality(held')
        /\ queue'.inflight = Cardinality(queue'.inflight_groups)
        /\ ret'.op = "enqueue" =>
              /\ held' = held
              /\ WaitingIds(queue) \subseteq WaitingIds(queue')
              /\ WaitingCount(queue') = WaitingCount(queue) + 1
        /\ ret'.op = "next_ready" =>
              WaitingIds(queue') \cup {it.id : it \in held'}
                  = WaitingIds(queue) \cup {it.id : it \in held}
        /\ ret'.op \in {"complete", "complete panicked"} =>
              /\ WaitingIds(queue) \subseteq WaitingIds(queue')
              /\ held' \subseteq held
              /\ \A item \in held \ held' :
                    item.id \in WaitingIds(queue') \/ Finished(item) ]_vars

----------------------------------------------------------------------------
(* Properties of the offline record. *)

\* C39: whenever mode is Offline, offline_since_ms is set: in every state
\* reachable through apply_transport_message, mark_offline_if_stale,
\* safety_lockdown_check, emit_command and mark_ota_complete, mode = Offline
\* implies that offline_since_ms records when the device went offline.
C39_OfflineHasSince ==
    rt.mode.tag = "Offline" => is_some(rt.offline_since_ms)

\* the broker with another secrets map: same allowlist, same audit log
WithSecrets(b, secrets) == [b EXCEPT !.secrets = secrets]

\* C40: denial is independent of the secret store: a request for a key that is
\* not in the allowlist returns None and records allowed = false whether or
\* not the secrets map holds the key and whatever its value; a broker with the
\* same allowlist and audit log but any other secrets map returns the same
\* value and ends with the same audit log, so the two stay indistinguishable
\* step by step over any sequence of such requests.
C40_DenialIgnoresSecrets ==
    [][ ret'.op = "request" =>
          LET key == requested'[Len(requested')]
          IN key \notin broker.allowlist =>
                /\ ret'.value = None
                /\ broker'.audit =
                      Append(broker.audit,
                             AuditEvent("secret.request", key, FALSE))
                /\ broker'.secrets = broker.secrets
                /\ broker'.allowlist = broker.allowlist
                /\ \A secrets \in BrokerSecrets :
                      LET twin == request(WithSecrets(broker, secrets), key)
                      IN /\ twin.ret = ret'.value
                         /\ twin.state.audit = broker'.audit
                         /\ twin.state.allowlist = broker'.allowlist ]_vars

\* a second request for a key outside the allowlist was denied although the
\* secrets map holds the key, after an earlier denial
C40_Witness ==
    /\ ret.op = "request"
    /\ ret.value = None
    /\ Len(requested) = 2
    /\ \A i \in DOMAIN requested : requested[i] \notin broker.allowlist
    /\ requested[2] \in DOMAIN broker.secrets
    /\ ~broker.audit[1].allowed
    /\ ~broker.audit[2].allowed

====
